---- MODULE Spec2Model ----
(***************************************************************************)
(* Limit-order matching engine of the HFT system: OrderBookLevel,          *)
(* OrderBookSide (src/order_book.cpp) and MatchingEngine                   *)
(* (src/matching_engine.cpp).                                              *)
(*                                                                         *)
(* add_order runs under engine_mutex_; it is modelled as the call (the     *)
(* lock is taken and the order dispatched), one step per iteration of the  *)
(* matching loop, and the return (the limit remainder is rested, the       *)
(* counter bumped, the lock released).  While pc = "matching" the lock is  *)
(* held and no other call can start.  cancel_order is one step.            *)
(*                                                                         *)
(* SpecLedger is the same engine and caller under a second name, for the  *)
(* properties of the book between calls and of the orders' quantities.    *)
(*                                                                         *)
(* Further components, each with a specification of its own:               *)
(*   SpecRisk      RiskManager (src/risk.cpp) driven by one caller, with   *)
(*                 the unsigned arithmetic of its checks;                  *)
(*   SpecThreads   the matching engine called from several threads that    *)
(*                 contend for engine_mutex_;                              *)
(*   SpecPipeline  the pipeline of src/main.cpp: the feed thread of        *)
(*                 MarketData, the workers of ThreadPool running the task  *)
(*                 (generate_signals, filter_orders, add_order), and the   *)
(*                 shutdown sequence of main.                              *)
(*   SpecStrategy  StrategyEngine (strategy.cpp) with the indicators of    *)
(*                 src/indicators.cpp, driven by one caller;               *)
(*   SpecRWLock    ReadWriteLock of the single-file demo, with the reader  *)
(*                 and writer threads of its test;                         *)
(*   SpecBarrier   Barrier of the demo with the threads of its test;       *)
(*   SpecAdvanced  AdvancedMatchingEngine of the demo called from several  *)
(*                 threads, with its ReadWriteLock and its mutex;          *)
(*   SpecQueue     LockFreeQueue of the demo with producer and consumer    *)
(*                 threads, each atomic operation a step;                  *)
(*   SpecPublisher MarketDataPublisher of the demo with the strategies     *)
(*                 subscribed to it, one step per published update.        *)
(* A specification leaves the variables of the other components as they    *)
(* are after construction.                                                 *)
(***************************************************************************)
EXTENDS Integers, Sequences, FiniteSets, TLC

\* ---- bounds of the model ----
MaxOrders == 3      \* add_order calls in a run
MaxCancels == 1     \* cancel_order calls in a run
MaxPrice == 2       \* prices are 1..MaxPrice
MaxQty == 2         \* an order is submitted for 1 or for MaxQty units

WordBits == 3       \* width of the unsigned integers of the risk checks (uint64_t, scaled down)
MaxBatch == 2       \* orders in one filter_orders call
MaxLimit == 2       \* a risk limit is 0 (no limit) or MaxLimit
MaxThreads == 2     \* threads calling the matching engine
MaxCalls == 3       \* calls the threads make in a run
MaxWorkers == 2     \* worker threads of the pool
MaxBatches == 2     \* batches the feed emits in a run
MaxRiskCalls == 2   \* RiskManager calls in a run
MaxHistory == 5     \* points kept in price_history and volume_history (1000, scaled down)
MaxStrategyPrice == 3   \* the highest price of an order handed to generate_signals
ShortPeriod == 2    \* StrategyConfig::short_period (10, scaled down)
LongPeriod == 4     \* StrategyConfig::long_period (30, scaled down)
RsiPeriod == 3      \* StrategyConfig::rsi_period (14, scaled down)
MacdFast == 2       \* the periods generate_momentum_signal passes to macd (12, 26, 9,
MacdSlow == 3       \* scaled down)
MacdSignal == 2
MainLongPeriod == 3 \* the long_period main.cpp sets (20, scaled down), and the slow period
MainMacdSlow == 4   \* of macd on the scale of that configuration (26)
MaxReaders == 2     \* reader threads of the ReadWriteLock test (4)
MaxWriters == 2     \* writer threads of the ReadWriteLock test (2)
MaxLockCalls == 4   \* read_lock and write_lock calls in a run
MaxParties == 3     \* threads of the Barrier test: Barrier barrier(4), scaled down
MaxPhases == 2      \* wait() calls of each thread of the Barrier test (3)
MaxAdvCalls == 3    \* calls of AdvancedMatchingEngine::add_order and cancel_order in a run
MaxUpdates == 3     \* updates published in a run
MaxUpdatePrice == 3 \* the price of an update is 1..MaxUpdatePrice
MeanRevLookback == 2    \* lookback of the mean-reversion strategy (25 in main, scaled down)
MomentumPeriod == 3 \* momentum period of the momentum strategy (15 in main, scaled down)
DemoRsiPeriod == 2  \* period of calculate_rsi (14, scaled down)
MaxProducers == 1   \* producer threads of the LockFreeQueue test (2)
MaxConsumers == 2   \* consumer threads of the LockFreeQueue test (2)
MaxNodes == 3       \* addresses that operator new hands out for the nodes of the queue
MaxPushes == 2      \* push calls in a run
MaxPops == 3        \* pop calls in a run

Ids == 1..MaxOrders
Prices == 1..MaxPrice
\* the quantities in between arise as remainders of partial fills
Quantities == {1, MaxQty}

\* enum class OrderSide / OrderType
BUY == "BUY"
SELL == "SELL"
LIMIT == "LIMIT"
MARKET == "MARKET"

\* a null std::shared_ptr<Order>
nullptr == [order_id |-> 0, side |-> "NONE", price |-> 0, quantity |-> 0, type |-> "NONE"]

\* struct Order (the timestamp is never read by the engine)
Order(id, s, p, q, t) == [order_id |-> id, side |-> s, price |-> p, quantity |-> q, type |-> t]

\* struct TradeEvent
TradeEvent(buy_id, sell_id, p, q) ==
    [buy_order_id |-> buy_id, sell_order_id |-> sell_id, price |-> p, quantity |-> q]

VARIABLES
    bid_side_,          \* OrderBookSide: [is_bid_side_, levels_]; levels_ maps a price to a level
    ask_side_,
    order_lookup_,      \* order id -> <<price, side>>
    trade_events_,      \* the trade log
    processed_orders_,  \* atomic counter
    matched_trades_,    \* atomic counter (total_processing_time_ns_ accumulates clock
                        \* readings that no operation reads back; it is left out)
    pc,                 \* "idle": engine_mutex_ free; "matching": add_order holds it
    incoming_order,     \* the order add_order is working on (the caller's shared_ptr target)
    last_call,          \* the call that returned last: its kind, the id it was about, what it
                        \* returned; for add_order, the order's type and the quantity left
                        \* in the caller's order at return; for cancel_order, the order that
                        \* was taken out of the book
    next_id,            \* the id of the next order: ids are unique and handed out in
                        \* increasing order (OrderId next_id = 1; order_id = next_id++)
    cancels,            \* history: number of cancel_order calls made
    before,             \* history: book, index and log as they were when the last add_order began
    ledger,             \* history: per order id, initial: the quantity the order was
                        \* submitted with; out: the quantity left in it when it went out of
                        \* the engine unrested (dropped or filled at return) or cancelled, -1
                        \* before; traded: what the log held for it at that time.  When the
                        \* next call begins, initial and out of such an order are set to 0.
    \* ---- RiskManager ----
    config_,            \* RiskConfig
    orders_rejected_,
    daily_volume_,
    risk_pc,            \* "idle", or "filtering": inside the loop of filter_orders
    remaining,          \* filter_orders: the orders of the argument the loop has not reached yet
    out,                \* filter_orders: the vector that is returned
    filter_call,        \* history: the argument of the last filter_orders call and the
                        \* counters as they were when it began
    risk_calls,         \* history: number of RiskManager calls made
    admitted_volume,    \* history: the exact sum of the quantities of the orders the single
                        \* caller's filter_orders calls admitted since the last reset
    \* ---- threads calling the matching engine ----
    engine_mutex_,      \* 0: free; otherwise the thread that holds it
    thread_pc,          \* per thread: "idle", "lock" (blocked in the lock_guard of its call),
                        \* "matching" (in add_order, lock held), "cancelling" (in cancel_order)
    thread_call,        \* per thread: the call it is in; for add_order the caller's order
    acquired,           \* history: the calls in the order in which they took engine_mutex_
    trade_owner,        \* history: for each entry of trade_events_, the place in acquired
                        \* of the call that appended it
    \* ---- the pipeline of main.cpp: MarketData, ThreadPool, the task ----
    running_,           \* MarketData::running_ (atomic)
    feed_pc,            \* feed thread: "check", "callback", "notify", "exited"
    emitted,            \* history: number of batches handed to the callback
    late_batches,       \* history: number of them handed over after running_ was cleared
    tasks_,             \* ThreadPool::tasks_; a task is the number of the batch it was made for
    queue_mutex_,       \* 0: free; otherwise the worker that holds it
    stop_,              \* ThreadPool::stop_ (atomic)
    workers_,           \* per worker: where it is in worker_loop and in the task, and the
                        \* locals of the task
    main_pc,            \* main: "running", "join_feed", "shutdown", "notify", "join_pool", "done"
    submitted,          \* history: the orders passed to engine.add_order, each with its task
    runs                \* history: how often the task of each batch was started

\* the state of the StrategyEngine (strategy.h)
VARIABLES
    strategy_config,            \* StrategyEngine::config
    price_history,              \* deque<double>: the prices of the Market-type inputs
    volume_history,             \* deque<double>: their quantities
    in_position,
    entry_price,
    last_signal_type_,
    last_signal_reason_,
    last_signal_confidence_,
    last_signal_pnl_pct_,
    strategy_call,              \* history: the argument, the signal and the result of the
                                \* last generate_signals call
    last_side                   \* history: the side of the last order generate_signals
                                \* returned, "NONE" before the first

\* the state of the ReadWriteLock
VARIABLES
    readers_,           \* atomic<int>
    writer_,            \* atomic<bool>
    writer_mutex_,      \* 0: free; otherwise the thread that holds it
    lock_pc,            \* per thread: where it is in read_lock / write_lock / write_unlock,
                        \* "reading" / "writing" while it holds the lock, "idle" otherwise
    lock_calls          \* history: number of read_lock and write_lock calls made

\* the state of the Barrier
VARIABLES
    count_,             \* Barrier::count_; mutex_ is held within a step only
    initial_count_,
    barrier_pc,         \* per thread: "idle", "lock" (wait() was called, the unique_lock not
                        \* yet taken), "waiting" (blocked in cv_.wait), "wake" (woken, the
                        \* mutex not yet taken again)
    entered             \* history: per thread, the number of wait() calls it has made

\* the state of the AdvancedMatchingEngine that the matching engine lacks
VARIABLES
    order_lookup_mutex_,    \* 0: free; otherwise the thread that holds it
    adv_pc,             \* per thread: "idle", "matching", "erase", "rest" (in add_order),
                        \* "find", "removing" (in cancel_order), "unlock"
    adv_call,           \* per thread: the call it is in
    adv_calls           \* history: number of add_order and cancel_order calls made

\* the state of the MarketDataPublisher and of the strategies subscribed
VARIABLES
    md_consumers,       \* consumers_: per strategy its state: is_active_, the prices its
                        \* indicators hold, its risk manager's position and PnL, its counters,
                        \* and (history) the number of generate_signal calls
    total_updates_published_,
    next_strategy_order_id, \* the static counter of execute_signal
    published           \* history: the updates publish_update was called with

\* the state of the LockFreeQueue
VARIABLES
    q_heap,             \* the memory of the nodes: per address [data, next, state], state
                        \* "unused", "live" (a Node), "freed" (deleted)
    head_,              \* atomic<Node*>: an address, 0 for nullptr
    tail_,
    size_,
    q_pc,               \* per thread: where it is in push or pop
    q_local,            \* per thread: the locals of its call
    pushed,             \* history: the push calls made, in order: the thread of each; the call
                        \* at place n pushes the value n
    popped,             \* history: the pop calls that returned true, in the order in which
                        \* they returned: the value, the thread, and how many had returned
                        \* when the call began
    pops                \* history: number of pop calls made

riskVars == <<config_, orders_rejected_, daily_volume_, risk_pc, remaining, out, filter_call,
              risk_calls, admitted_volume>>

threadVars == <<engine_mutex_, thread_pc, thread_call, acquired, trade_owner>>

\* the state of the components other than the matching engine
pipelineVars == <<running_, feed_pc, emitted, late_batches, tasks_, queue_mutex_, stop_,
                  workers_, main_pc, submitted, runs>>

strategyVars == <<strategy_config, price_history, volume_history, in_position, entry_price,
                  last_signal_type_, last_signal_reason_, last_signal_confidence_,
                  last_signal_pnl_pct_, strategy_call, last_side>>

lockVars == <<readers_, writer_, writer_mutex_, lock_pc, lock_calls>>

\* the state of the components of the single-file demo
barrierVars == <<count_, initial_count_, barrier_pc, entered>>

queueVars == <<q_heap, head_, tail_, size_, q_pc, q_local, pushed, popped, pops>>

advancedVars == <<order_lookup_mutex_, adv_pc, adv_call, adv_calls>>

publisherVars == <<md_consumers, total_updates_published_, next_strategy_order_id, published>>

\* the state of the components of the single-file demo
demoVars == <<lockVars, barrierVars, queueVars, advancedVars, publisherVars>>

\* the components of the demo other than the ReadWriteLock, other than the
\* Barrier, other than the LockFreeQueue, other than the publisher
notLockVars == <<barrierVars, queueVars, advancedVars, publisherVars>>
notBarrierVars == <<lockVars, queueVars, advancedVars, publisherVars>>
notQueueVars == <<lockVars, barrierVars, advancedVars, publisherVars>>
notPublisherVars == <<lockVars, barrierVars, queueVars, advancedVars>>

otherVars == <<riskVars, threadVars, pipelineVars, strategyVars, demoVars>>

vars == <<bid_side_, ask_side_, order_lookup_, trade_events_, processed_orders_,
          matched_trades_, pc, incoming_order, last_call, next_id, cancels, before, ledger,
          otherVars>>

engine == <<bid_side_, ask_side_, order_lookup_, trade_events_, processed_orders_, matched_trades_>>

\* the matching engine with its history variables
engineVars == <<engine, pc, incoming_order, last_call, next_id, cancels, before, ledger>>

\* the state of the program of main.cpp
programVars == <<engineVars, riskVars, threadVars, pipelineVars, strategyVars>>

\* what a step of the AdvancedMatchingEngine leaves alone besides the book,
\* the id counter, its own state and its lock
notAdvancedVars == <<pc, incoming_order, last_call, cancels, before, ledger, riskVars,
                     threadVars, pipelineVars, strategyVars, barrierVars, queueVars,
                     publisherVars>>

\* ---- helpers on finite maps (std::map / std::unordered_map) ----
MapPut(m, k, v) == [x \in DOMAIN m \cup {k} |-> IF x = k THEN v ELSE m[x]]
MapErase(m, k) == [x \in DOMAIN m \ {k} |-> m[x]]
EmptyMap == [x \in {} |-> 0]

MaxOf(S) == CHOOSE x \in S : \A y \in S : y <= x
MinOf(S) == CHOOSE x \in S : \A y \in S : x <= y
Min(a, b) == IF a <= b THEN a ELSE b

\* ---- OrderBookLevel ----
\* OrderBookLevel::OrderBookLevel
NewLevel(price) == [price_ |-> price, orders_ |-> <<>>, total_quantity_ |-> 0]

\* OrderBookLevel::add_order
LevelAddOrder(level, order) ==
    [level EXCEPT !.orders_ = Append(@, order),
                  !.total_quantity_ = @ + order.quantity]

\* OrderBookLevel::get_front_order
GetFrontOrder(level) == IF level.orders_ = <<>> THEN nullptr ELSE Head(level.orders_)

\* OrderBookLevel::remove_front_order
RemoveFrontOrder(level) ==
    IF level.orders_ # <<>>
    THEN [level EXCEPT !.total_quantity_ = @ - Head(level.orders_).quantity,
                       !.orders_ = Tail(@)]
    ELSE level

\* OrderBookLevel::remove_order: the loop that drains orders_ into temp_queue.
\* Result: [level, found].
RECURSIVE RemoveLoop(_, _, _, _, _)
RemoveLoop(orders, temp_queue, total, found, order_id) ==
    IF orders = <<>>
    THEN [orders_ |-> temp_queue, total_quantity_ |-> total, found |-> found]
    ELSE LET order == Head(orders) IN
         IF order.order_id = order_id
         THEN RemoveLoop(Tail(orders), temp_queue, total - order.quantity, TRUE, order_id)
         ELSE RemoveLoop(Tail(orders), Append(temp_queue, order), total, found, order_id)

\* mutant of LevelRemoveOrder: the front order is popped whatever its id
LevelRemoveOrder_Front(level, order_id) ==
    [level |-> RemoveFrontOrder(level), found |-> level.orders_ # <<>>]

\* mutant of LevelRemoveOrder: the queue is rebuilt back to front
LevelRemoveOrder_Reversed(level, order_id) ==
    LET r == RemoveLoop(level.orders_, <<>>, level.total_quantity_, FALSE, order_id)
        n == Len(r.orders_)
    IN [level |-> [level EXCEPT !.orders_ = [i \in 1..n |-> r.orders_[n + 1 - i]],
                                !.total_quantity_ = r.total_quantity_],
        found |-> r.found]

LevelRemoveOrder(level, order_id) ==
    LET r == RemoveLoop(level.orders_, <<>>, level.total_quantity_, FALSE, order_id) IN
    [level |-> [level EXCEPT !.orders_ = r.orders_, !.total_quantity_ = r.total_quantity_],
     found |-> r.found]

LevelIsEmpty(level) == level.orders_ = <<>>

\* ---- OrderBookSide ----
\* OrderBookSide::OrderBookSide
NewSide(is_bid) == [is_bid_side_ |-> is_bid, levels_ |-> EmptyMap]

\* OrderBookSide::is_empty
SideIsEmpty(side) == DOMAIN side.levels_ = {}

\* mutant of BestKey: begin() on the bid side and rbegin() on the ask side
BestKey_Swapped(side) ==
    IF side.is_bid_side_ THEN MinOf(DOMAIN side.levels_) ELSE MaxOf(DOMAIN side.levels_)

\* the key of levels_.rbegin() on the bid side, of levels_.begin() on the ask side
BestKey(side) ==
    IF side.is_bid_side_ THEN MaxOf(DOMAIN side.levels_) ELSE MinOf(DOMAIN side.levels_)

\* OrderBookSide::add_order
SideAddOrder(side, order) ==
    LET price == order.price
        levels == IF price \notin DOMAIN side.levels_
                  THEN MapPut(side.levels_, price, NewLevel(price))
                  ELSE side.levels_
    IN [side EXCEPT !.levels_ = [levels EXCEPT ![price] = LevelAddOrder(@, order)]]

\* OrderBookSide::get_best_order
GetBestOrder(side) ==
    IF SideIsEmpty(side) THEN nullptr ELSE GetFrontOrder(side.levels_[BestKey(side)])

\* mutant of RemoveBestOrder: the level is kept when its last order is removed
RemoveBestOrder_KeepLevel(side) ==
    IF SideIsEmpty(side) THEN side
    ELSE [side EXCEPT !.levels_[BestKey(side)] = RemoveFrontOrder(@)]

\* OrderBookSide::remove_best_order
RemoveBestOrder(side) ==
    IF SideIsEmpty(side) THEN side
    ELSE LET k == BestKey(side)
             level == RemoveFrontOrder(side.levels_[k])
         IN IF LevelIsEmpty(level)
            THEN [side EXCEPT !.levels_ = MapErase(@, k)]
            ELSE [side EXCEPT !.levels_[k] = level]

\* OrderBookSide::remove_order.  Result: [side, removed].
SideRemoveOrder(side, order_id, price) ==
    IF price \notin DOMAIN side.levels_ THEN [side |-> side, removed |-> FALSE]
    ELSE LET r == LevelRemoveOrder(side.levels_[price], order_id) IN
         IF r.found /\ LevelIsEmpty(r.level)
         THEN [side |-> [side EXCEPT !.levels_ = MapErase(@, price)], removed |-> r.found]
         ELSE [side |-> [side EXCEPT !.levels_[price] = r.level], removed |-> r.found]

\* mutant of GetBestPrice: the first level of the map is taken on either side
GetBestPrice_Begin(side) ==
    IF SideIsEmpty(side) THEN 0 ELSE side.levels_[MinOf(DOMAIN side.levels_)].price_

\* OrderBookSide::get_best_price
GetBestPrice(side) ==
    IF SideIsEmpty(side) THEN 0 ELSE side.levels_[BestKey(side)].price_

\* ---- MatchingEngine ----
\* MatchingEngine::MatchingEngine
NewMatchingEngine ==
    /\ bid_side_ = NewSide(TRUE)
    /\ ask_side_ = NewSide(FALSE)
    /\ order_lookup_ = EmptyMap
    /\ trade_events_ = <<>>
    /\ processed_orders_ = 0
    /\ matched_trades_ = 0
    /\ pc = "idle"
    /\ incoming_order = nullptr
    /\ last_call = [op |-> "none", order_id |-> 0, ret |-> FALSE, type |-> "NONE", left |-> 0,
                    removed |-> nullptr]
    /\ next_id = 1
    /\ cancels = 0
    /\ before = [bid |-> NewSide(TRUE), ask |-> NewSide(FALSE), lookup |-> EmptyMap, trades |-> <<>>]
    /\ ledger = <<>>

\* process_market_order / process_limit_order: the side the order is matched against
OppositeSide(order) == IF order.side = BUY THEN ask_side_ ELSE bid_side_

\* mutant of CanMatch: a limit order does not match at its own limit price
CanMatch_Strict(incoming, resting) ==
    IF incoming.type = MARKET THEN TRUE
    ELSE IF incoming.side = BUY THEN incoming.price > resting.price
         ELSE incoming.price < resting.price

\* match_order_against_side: can_match
CanMatch(incoming, resting) ==
    IF incoming.type = MARKET THEN TRUE
    ELSE IF incoming.side = BUY THEN incoming.price >= resting.price
         ELSE incoming.price <= resting.price

\* mutant of LoopContinues: the loop is left after the first trade of a call
LoopContinues_Once(incoming, opposite_side) ==
    /\ Len(trade_events_) = Len(before.trades)
    /\ incoming.quantity > 0
    /\ ~SideIsEmpty(opposite_side)
    /\ GetBestOrder(opposite_side) # nullptr
    /\ CanMatch(incoming, GetBestOrder(opposite_side))

\* match_order_against_side: the loop goes into another match
\* (while condition, null check and can_match all pass)
LoopContinues(incoming, opposite_side) ==
    /\ incoming.quantity > 0
    /\ ~SideIsEmpty(opposite_side)
    /\ GetBestOrder(opposite_side) # nullptr
    /\ CanMatch(incoming, GetBestOrder(opposite_side))

\* mutant of TradePrice: the trade is priced at the incoming order's price
TradePrice_Incoming(incoming, resting) == incoming.price

\* match_order_against_side: trade_price
TradePrice(incoming, resting) == resting.price

\* mutant of TradeQuantity: the incoming order's whole remainder is traded
TradeQuantity_Incoming(incoming, resting) == incoming.quantity

\* match_order_against_side: trade_quantity
TradeQuantity(incoming, resting) == Min(incoming.quantity, resting.quantity)

\* mutant of BuyId: the incoming order is always named as the buyer
BuyId_Incoming(incoming, resting) == incoming.order_id

\* match_order_against_side: buy_id / sell_id
BuyId(incoming, resting) == IF incoming.side = BUY THEN incoming.order_id ELSE resting.order_id
SellId(incoming, resting) == IF incoming.side = SELL THEN incoming.order_id ELSE resting.order_id

\* mutant of DecrementResting: the resting order keeps its quantity
DecrementResting_Not(side, trade_quantity) == side

\* resting_order->quantity -= trade_quantity: resting_order points to the order
\* queued at the front of the best level, so the queued order changes
DecrementResting(side, trade_quantity) ==
    [side EXCEPT !.levels_[BestKey(side)].orders_[1].quantity = @ - trade_quantity]

\* match_order_against_side: what happens to the opposite side in one match
MatchOpposite(opposite_side, trade_quantity) ==
    LET resting == GetBestOrder(opposite_side)
        filled == DecrementResting(opposite_side, trade_quantity)
    IN IF resting.quantity - trade_quantity = 0 THEN RemoveBestOrder(filled) ELSE filled

\* mutant of MatchLookup: the filled order is left in order_lookup_
MatchLookup_NoErase(lookup, resting, trade_quantity) == lookup

\* match_order_against_side: what happens to order_lookup_ in one match
MatchLookup(lookup, resting, trade_quantity) ==
    IF resting.quantity - trade_quantity = 0 THEN MapErase(lookup, resting.order_id) ELSE lookup

\* mutant of RestsRemainder: the remainder is rested whatever the order type
RestsRemainder_AnyType(order) == order.quantity > 0

\* process_limit_order: the remainder of a limit order is rested; a market order never is
RestsRemainder(order) == order.type = LIMIT /\ order.quantity > 0

\* history only: the sum of the quantities of the trades of a log that name an order id
RECURSIVE Traded(_, _)
Traded(trades, id) ==
    IF trades = <<>> THEN 0
    ELSE (IF id \in {Head(trades).buy_order_id, Head(trades).sell_order_id}
          THEN Head(trades).quantity ELSE 0) + Traded(Tail(trades), id)

\* history only: a call begins; of the orders that have gone out of the engine
\* only what the log held for them is kept
Settled(entries) ==
    [id \in DOMAIN entries |-> IF entries[id].out >= 0
                               THEN [entries[id] EXCEPT !.initial = 0, !.out = 0]
                               ELSE entries[id]]

\* history only: the order has gone out of the engine with this quantity left
GoneOut(entries, id, quantity) ==
    [entries EXCEPT ![id].out = quantity, ![id].traded = Traded(trade_events_, id)]

\* MatchingEngine::add_order is called: the lock is taken, the order dispatched
AddOrderCall(order) ==
    /\ pc = "idle"
    /\ next_id <= MaxOrders
    /\ order.order_id = next_id
    /\ pc' = "matching"
    /\ incoming_order' = order
    /\ next_id' = next_id + 1
    /\ before' = [bid |-> bid_side_, ask |-> ask_side_, lookup |-> order_lookup_,
                  trades |-> trade_events_]
    /\ ledger' = Append(Settled(ledger), [initial |-> order.quantity, out |-> -1, traded |-> 0])
    /\ UNCHANGED <<engine, last_call, cancels>>
    /\ UNCHANGED otherVars

\* match_order_against_side: one iteration of the loop that trades
MatchStep ==
    /\ pc = "matching"
    /\ LoopContinues(incoming_order, OppositeSide(incoming_order))
    /\ LET resting_order == GetBestOrder(OppositeSide(incoming_order))
           trade_price == TradePrice(incoming_order, resting_order)
           trade_quantity == TradeQuantity(incoming_order, resting_order)
       IN /\ trade_events_' = Append(trade_events_,
                 TradeEvent(BuyId(incoming_order, resting_order),
                            SellId(incoming_order, resting_order),
                            trade_price, trade_quantity))
          /\ matched_trades_' = matched_trades_ + 1
          /\ incoming_order' = [incoming_order EXCEPT !.quantity = @ - trade_quantity]
          /\ IF incoming_order.side = BUY
             THEN /\ ask_side_' = MatchOpposite(ask_side_, trade_quantity)
                  /\ UNCHANGED bid_side_
             ELSE /\ bid_side_' = MatchOpposite(bid_side_, trade_quantity)
                  /\ UNCHANGED ask_side_
          /\ order_lookup_' = MatchLookup(order_lookup_, resting_order, trade_quantity)
    /\ UNCHANGED <<processed_orders_, pc, last_call, next_id, cancels, before, ledger>>
    /\ UNCHANGED otherVars

\* the loop is left; process_limit_order rests the remainder; add_order counts
\* the order and returns
AddOrderReturn ==
    /\ pc = "matching"
    /\ ~LoopContinues(incoming_order, OppositeSide(incoming_order))
    /\ IF RestsRemainder(incoming_order)
       THEN /\ IF incoming_order.side = BUY
               THEN /\ bid_side_' = SideAddOrder(bid_side_, incoming_order)
                    /\ UNCHANGED ask_side_
               ELSE /\ ask_side_' = SideAddOrder(ask_side_, incoming_order)
                    /\ UNCHANGED bid_side_
            /\ order_lookup_' = MapPut(order_lookup_, incoming_order.order_id,
                                       <<incoming_order.price, incoming_order.side>>)
            /\ UNCHANGED ledger
       ELSE /\ UNCHANGED <<bid_side_, ask_side_, order_lookup_>>
            /\ ledger' = GoneOut(ledger, incoming_order.order_id, incoming_order.quantity)
    /\ processed_orders_' = processed_orders_ + 1
    /\ pc' = "idle"
    /\ last_call' = [op |-> "add_order", order_id |-> incoming_order.order_id, ret |-> TRUE,
                     type |-> incoming_order.type, left |-> incoming_order.quantity,
                     removed |-> nullptr]
    /\ incoming_order' = nullptr
    /\ UNCHANGED <<trade_events_, matched_trades_, next_id, cancels, before>>
    /\ UNCHANGED otherVars

\* history only: the order with this id queued in the book, nullptr when there is none
QueuedOrder(order_id) ==
    LET queued == {side.levels_[p].orders_[i] :
                      <<side, p, i>> \in {<<side, p, i>> \in {bid_side_, ask_side_} \X Prices \X Ids :
                                            /\ p \in DOMAIN side.levels_
                                            /\ i \in DOMAIN side.levels_[p].orders_
                                            /\ side.levels_[p].orders_[i].order_id = order_id}}
    IN IF queued = {} THEN nullptr ELSE CHOOSE o \in queued : TRUE

\* MatchingEngine::cancel_order
CancelOrder(order_id) ==
    /\ pc = "idle"
    /\ cancels < MaxCancels
    /\ cancels' = cancels + 1
    /\ IF order_id \notin DOMAIN order_lookup_
       THEN /\ last_call' = [op |-> "cancel_order", order_id |-> order_id, ret |-> FALSE,
                             type |-> "NONE", left |-> 0, removed |-> nullptr]
            /\ ledger' = Settled(ledger)
            /\ UNCHANGED <<bid_side_, ask_side_, order_lookup_>>
       ELSE LET price == order_lookup_[order_id][1]
                side == order_lookup_[order_id][2]
                r == IF side = BUY THEN SideRemoveOrder(bid_side_, order_id, price)
                     ELSE SideRemoveOrder(ask_side_, order_id, price)
            IN /\ IF side = BUY
                  THEN bid_side_' = r.side /\ UNCHANGED ask_side_
                  ELSE ask_side_' = r.side /\ UNCHANGED bid_side_
               /\ order_lookup_' = IF r.removed THEN MapErase(order_lookup_, order_id)
                                   ELSE order_lookup_
               /\ last_call' = [op |-> "cancel_order", order_id |-> order_id, ret |-> r.removed,
                                type |-> "NONE", left |-> 0,
                                removed |-> IF r.removed THEN QueuedOrder(order_id) ELSE nullptr]
               /\ ledger' = IF r.removed
                            THEN GoneOut(Settled(ledger), order_id,
                                         QueuedOrder(order_id).quantity)
                            ELSE Settled(ledger)
    /\ UNCHANGED <<trade_events_, processed_orders_, matched_trades_, pc, incoming_order,
                   next_id, before>>
    /\ UNCHANGED otherVars

\* MatchingEngine::get_best_bid_ask
GetBestBidAsk == <<GetBestPrice(bid_side_), GetBestPrice(ask_side_)>>

\* ---- MatchingEngine called from several threads ----
Threads == 1..MaxThreads

\* a call of the public interface: [op, order, order_id, seq]; seq is the place
\* the call got in acquired when it took the lock
NoCall == [op |-> "none", order |-> nullptr, order_id |-> 0, seq |-> 0]

\* no thread is calling the engine
NoCallers ==
    /\ engine_mutex_ = 0
    /\ thread_pc = [t \in Threads |-> "idle"]
    /\ thread_call = [t \in Threads |-> NoCall]
    /\ acquired = <<>>
    /\ trade_owner = <<>>

\* the members of MatchingEngine as one value
EngineState ==
    [bid |-> bid_side_, ask |-> ask_side_, lookup |-> order_lookup_, trades |-> trade_events_,
     processed |-> processed_orders_, matched |-> matched_trades_]

NewEngineState ==
    [bid |-> NewSide(TRUE), ask |-> NewSide(FALSE), lookup |-> EmptyMap, trades |-> <<>>,
     processed |-> 0, matched |-> 0]

\* process_market_order / process_limit_order: the side the order is matched against
Opposite(st, order) == IF order.side = BUY THEN st.ask ELSE st.bid

\* match_order_against_side: one iteration of the loop that trades
MatchOnce(st, incoming) ==
    LET resting_order == GetBestOrder(Opposite(st, incoming))
        trade_price == TradePrice(incoming, resting_order)
        trade_quantity == TradeQuantity(incoming, resting_order)
        traded == [st EXCEPT !.trades = Append(@, TradeEvent(BuyId(incoming, resting_order),
                                                               SellId(incoming, resting_order),
                                                               trade_price, trade_quantity)),
                             !.matched = @ + 1,
                             !.lookup = MatchLookup(@, resting_order, trade_quantity)]
    IN [st |-> IF incoming.side = BUY
               THEN [traded EXCEPT !.ask = MatchOpposite(@, trade_quantity)]
               ELSE [traded EXCEPT !.bid = MatchOpposite(@, trade_quantity)],
        order |-> [incoming EXCEPT !.quantity = @ - trade_quantity]]

\* match_order_against_side: the whole loop
RECURSIVE MatchOrderAgainstSide(_, _)
MatchOrderAgainstSide(st, incoming) ==
    IF LoopContinues(incoming, Opposite(st, incoming))
    THEN LET r == MatchOnce(st, incoming) IN MatchOrderAgainstSide(r.st, r.order)
    ELSE [st |-> st, order |-> incoming]

\* mutant of FetchAdd: the increment is lost
FetchAdd_Lost(n) == n

\* processed_orders_++ on a std::atomic<uint64_t>
FetchAdd(n) == n + 1

\* process_limit_order rests the remainder; add_order counts the order
RestAndCount(st, order) ==
    LET rested == IF ~RestsRemainder(order) THEN st
                  ELSE [st EXCEPT !.bid = IF order.side = BUY THEN SideAddOrder(@, order) ELSE @,
                                  !.ask = IF order.side = SELL THEN SideAddOrder(@, order) ELSE @,
                                  !.lookup = MapPut(@, order.order_id, <<order.price, order.side>>)]
    IN [rested EXCEPT !.processed = FetchAdd(@)]

\* MatchingEngine::add_order, run from the lock to the unlock
RunAddOrder(st, order) ==
    LET r == MatchOrderAgainstSide(st, order) IN RestAndCount(r.st, r.order)

\* MatchingEngine::cancel_order, run from the lock to the unlock
RunCancelOrder(st, order_id) ==
    IF order_id \notin DOMAIN st.lookup THEN st
    ELSE LET price == st.lookup[order_id][1]
             side == st.lookup[order_id][2]
             r == IF side = BUY THEN SideRemoveOrder(st.bid, order_id, price)
                  ELSE SideRemoveOrder(st.ask, order_id, price)
         IN [st EXCEPT !.bid = IF side = BUY THEN r.side ELSE @,
                       !.ask = IF side = SELL THEN r.side ELSE @,
                       !.lookup = IF r.removed THEN MapErase(@, order_id) ELSE @]

\* the engine after the calls of a sequence have run one after the other
RECURSIVE RunCalls(_, _)
RunCalls(st, calls) ==
    IF calls = <<>> THEN st
    ELSE RunCalls(IF Head(calls).op = "add_order" THEN RunAddOrder(st, Head(calls).order)
                  ELSE RunCancelOrder(st, Head(calls).order_id),
                  Tail(calls))

\* the members of MatchingEngine take the value st
SetEngine(st) ==
    /\ bid_side_' = st.bid
    /\ ask_side_' = st.ask
    /\ order_lookup_' = st.lookup
    /\ trade_events_' = st.trades
    /\ processed_orders_' = st.processed
    /\ matched_trades_' = st.matched

\* the calls that have begun: those that took the lock and those blocked on it
CallsBegun == Len(acquired) + Cardinality({t \in Threads : thread_pc[t] = "lock"})

\* a thread calls add_order and reaches the lock_guard
ThreadAddOrder(t, order) ==
    /\ thread_pc[t] = "idle"
    /\ CallsBegun < MaxCalls
    /\ order.order_id = next_id
    /\ next_id' = next_id + 1
    /\ thread_pc' = [thread_pc EXCEPT ![t] = "lock"]
    /\ thread_call' = [thread_call EXCEPT ![t] = [op |-> "add_order", order |-> order,
                                                  order_id |-> order.order_id, seq |-> 0]]
    /\ UNCHANGED <<engine, engine_mutex_, acquired, trade_owner>>
    /\ UNCHANGED <<pc, incoming_order, last_call, cancels, before, ledger, riskVars, pipelineVars,
                   strategyVars, demoVars>>

\* a thread calls cancel_order and reaches the lock_guard
ThreadCancelOrder(t, order_id) ==
    /\ thread_pc[t] = "idle"
    /\ CallsBegun < MaxCalls
    /\ thread_pc' = [thread_pc EXCEPT ![t] = "lock"]
    /\ thread_call' = [thread_call EXCEPT ![t] = [op |-> "cancel_order", order |-> nullptr,
                                                  order_id |-> order_id, seq |-> 0]]
    /\ UNCHANGED <<engine, next_id, engine_mutex_, acquired, trade_owner>>
    /\ UNCHANGED <<pc, incoming_order, last_call, cancels, before, ledger, riskVars, pipelineVars,
                   strategyVars, demoVars>>

\* mutant of CanLock: the lock is handed out while another thread holds it
CanLock_Always == TRUE

\* std::lock_guard<std::mutex> lock(engine_mutex_) returns only when the mutex is free
CanLock == engine_mutex_ = 0

\* the lock_guard of add_order / cancel_order takes engine_mutex_
ThreadLock(t) ==
    /\ thread_pc[t] = "lock"
    /\ CanLock
    /\ engine_mutex_' = t
    /\ thread_pc' = [thread_pc EXCEPT ![t] = IF thread_call[t].op = "add_order"
                                             THEN "matching" ELSE "cancelling"]
    /\ thread_call' = [thread_call EXCEPT ![t].seq = Len(acquired) + 1]
    /\ acquired' = Append(acquired, thread_call[t])
    /\ UNCHANGED <<engine, next_id, trade_owner>>
    /\ UNCHANGED <<pc, incoming_order, last_call, cancels, before, ledger, riskVars, pipelineVars,
                   strategyVars, demoVars>>

\* match_order_against_side in thread t: one iteration of the loop that trades
ThreadMatchStep(t) ==
    /\ thread_pc[t] = "matching"
    /\ LoopContinues(thread_call[t].order, Opposite(EngineState, thread_call[t].order))
    /\ LET r == MatchOnce(EngineState, thread_call[t].order)
       IN /\ SetEngine(r.st)
          /\ thread_call' = [thread_call EXCEPT ![t].order = r.order]
    /\ trade_owner' = Append(trade_owner, thread_call[t].seq)
    /\ UNCHANGED <<next_id, engine_mutex_, thread_pc, acquired>>
    /\ UNCHANGED <<pc, incoming_order, last_call, cancels, before, ledger, riskVars, pipelineVars,
                   strategyVars, demoVars>>

\* add_order in thread t: the loop is left, the remainder rested, the order
\* counted, the lock released
ThreadAddOrderReturn(t) ==
    /\ thread_pc[t] = "matching"
    /\ ~LoopContinues(thread_call[t].order, Opposite(EngineState, thread_call[t].order))
    /\ SetEngine(RestAndCount(EngineState, thread_call[t].order))
    /\ engine_mutex_' = 0
    /\ thread_pc' = [thread_pc EXCEPT ![t] = "idle"]
    /\ thread_call' = [thread_call EXCEPT ![t] = NoCall]
    /\ UNCHANGED <<next_id, acquired, trade_owner>>
    /\ UNCHANGED <<pc, incoming_order, last_call, cancels, before, ledger, riskVars, pipelineVars,
                   strategyVars, demoVars>>

\* cancel_order in thread t, from after the lock_guard to the unlock
ThreadCancelOrderReturn(t) ==
    /\ thread_pc[t] = "cancelling"
    /\ SetEngine(RunCancelOrder(EngineState, thread_call[t].order_id))
    /\ engine_mutex_' = 0
    /\ thread_pc' = [thread_pc EXCEPT ![t] = "idle"]
    /\ thread_call' = [thread_call EXCEPT ![t] = NoCall]
    /\ UNCHANGED <<next_id, acquired, trade_owner>>
    /\ UNCHANGED <<pc, incoming_order, last_call, cancels, before, ledger, riskVars, pipelineVars,
                   strategyVars, demoVars>>

\* ---- RiskManager ----
\* the largest value of the unsigned type of Price and Quantity
UintMax == 2^WordBits - 1

\* unsigned arithmetic: a result is reduced modulo UintMax + 1
Wrap(x) == x % (UintMax + 1)

\* struct RiskConfig (max_position_pct is not read by filter_orders)
RiskConfig(q, n, b, v) ==
    [max_order_quantity |-> q, max_notional_per_order |-> n,
     max_orders_per_batch |-> b, max_daily_volume |-> v]

\* the configurations of a run: every limit is either off or set
RiskConfigs ==
    {RiskConfig(q, n, b, v) : q \in {0, MaxLimit}, n \in {0, MaxLimit},
                              b \in {0, MaxLimit - 1}, v \in {0, MaxLimit}}

\* the prices and quantities of the orders handed to filter_orders
RiskPrices == {1, (UintMax + 1) \div 2}
RiskQuantities == {2, UintMax}

\* the arguments of filter_orders; an order's id is its place in the batch
Batches ==
    UNION {{[i \in 1..n |-> Order(i, BUY, f[i][1], f[i][2], MARKET)] :
               f \in [1..n -> RiskPrices \X RiskQuantities]} : n \in 0..MaxBatch}

\* RiskManager::RiskManager(const RiskConfig&)
NewRiskManager(config) ==
    /\ config_ = config
    /\ orders_rejected_ = 0
    /\ daily_volume_ = 0
    /\ risk_pc = "idle"
    /\ remaining = <<>>
    /\ out = <<>>
    /\ filter_call = [orders |-> <<>>, rejected |-> 0, volume |-> 0]
    /\ risk_calls = 0
    /\ admitted_volume = 0

\* filter_orders: uint64_t notional = order->price * order->quantity
Notional(order) == Wrap(order.price * order.quantity)

\* filter_orders: the four checks, in the order of the code; volume is the
\* value read from daily_volume_, admitted the vector out built so far
ExceedsQuantity(order) ==
    config_.max_order_quantity # 0 /\ order.quantity > config_.max_order_quantity

ExceedsNotional(order) ==
    config_.max_notional_per_order # 0 /\ Notional(order) > config_.max_notional_per_order

ExceedsBatch(admitted) ==
    config_.max_orders_per_batch # 0 /\ Len(admitted) >= config_.max_orders_per_batch

ExceedsDailyVolume(order, volume) ==
    /\ config_.max_daily_volume # 0
    /\ Wrap(volume + order.quantity) > config_.max_daily_volume

\* filter_orders: the order is counted as rejected and skipped
Rejects(order, volume, admitted) ==
    \/ ExceedsQuantity(order)
    \/ ExceedsNotional(order)
    \/ ExceedsBatch(admitted)
    \/ ExceedsDailyVolume(order, volume)

\* filter_orders: daily_volume_ after an order is admitted
VolumeAfter(order, volume) ==
    IF config_.max_daily_volume # 0 THEN Wrap(volume + order.quantity) ELSE volume

\* mutant of CountRejected: the rejection is not counted
CountRejected_Lost(n) == n

\* filter_orders: ++orders_rejected_
CountRejected(n) == n + 1

\* RiskManager::filter_orders is called
FilterOrdersCall(batch) ==
    /\ risk_pc = "idle"
    /\ risk_calls < MaxRiskCalls
    /\ risk_calls' = risk_calls + 1
    /\ risk_pc' = "filtering"
    /\ remaining' = batch
    /\ out' = <<>>
    /\ filter_call' = [orders |-> batch, rejected |-> orders_rejected_, volume |-> daily_volume_]
    /\ UNCHANGED <<config_, orders_rejected_, daily_volume_, admitted_volume>>
    /\ UNCHANGED <<engineVars, threadVars, pipelineVars, strategyVars, demoVars>>

\* filter_orders: one iteration of the loop
FilterStep ==
    /\ risk_pc = "filtering"
    /\ remaining # <<>>
    /\ LET order == Head(remaining)
       IN IF Rejects(order, daily_volume_, out)
          THEN /\ orders_rejected_' = CountRejected(orders_rejected_)
               /\ UNCHANGED <<daily_volume_, out, admitted_volume>>
          ELSE /\ daily_volume_' = VolumeAfter(order, daily_volume_)
               /\ out' = Append(out, order)
               /\ admitted_volume' = admitted_volume + order.quantity
               /\ UNCHANGED orders_rejected_
    /\ remaining' = Tail(remaining)
    /\ UNCHANGED <<config_, risk_pc, filter_call, risk_calls>>
    /\ UNCHANGED <<engineVars, threadVars, pipelineVars, strategyVars, demoVars>>

\* filter_orders: the loop is over, out is returned
FilterOrdersReturn ==
    /\ risk_pc = "filtering"
    /\ remaining = <<>>
    /\ risk_pc' = "idle"
    /\ UNCHANGED <<config_, orders_rejected_, daily_volume_, remaining, out, filter_call, risk_calls,
                   admitted_volume>>
    /\ UNCHANGED <<engineVars, threadVars, pipelineVars, strategyVars, demoVars>>

\* RiskManager::reset_daily_volume
ResetDailyVolume ==
    /\ risk_pc = "idle"
    /\ risk_calls < MaxRiskCalls
    /\ risk_calls' = risk_calls + 1
    /\ daily_volume_' = 0
    /\ admitted_volume' = 0
    /\ UNCHANGED <<config_, orders_rejected_, risk_pc, remaining, out, filter_call>>
    /\ UNCHANGED <<engineVars, threadVars, pipelineVars, strategyVars, demoVars>>

\* RiskManager::reset_counters
ResetCounters ==
    /\ risk_pc = "idle"
    /\ risk_calls < MaxRiskCalls
    /\ risk_calls' = risk_calls + 1
    /\ orders_rejected_' = 0
    /\ daily_volume_' = 0
    /\ admitted_volume' = 0
    /\ UNCHANGED <<config_, risk_pc, remaining, out, filter_call>>
    /\ UNCHANGED <<engineVars, threadVars, pipelineVars, strategyVars, demoVars>>

\* filter_orders: the whole loop over a batch, from the volume read and the
\* vector admitted so far; rejected counts the orders skipped
RECURSIVE FilterLoop(_, _, _, _)
FilterLoop(batch, volume, admitted, rejected) ==
    IF batch = <<>> THEN [out |-> admitted, volume |-> volume, rejected |-> rejected]
    ELSE IF Rejects(Head(batch), volume, admitted)
         THEN FilterLoop(Tail(batch), volume, admitted, rejected + 1)
         ELSE FilterLoop(Tail(batch), VolumeAfter(Head(batch), volume),
                         Append(admitted, Head(batch)), rejected)

\* ---- the pipeline of main.cpp ----
Workers == 1..MaxWorkers
BatchNumbers == 1..MaxBatches

\* a worker at the top of worker_loop, outside a task
IdleWorker == [pc |-> "lock", task |-> 0, signals |-> <<>>, filtered |-> <<>>,
               pending |-> <<>>, seen |-> 0]

\* main.cpp after market_data.start: the pool's workers are started, the feed
\* thread runs, main is in its loop
NewPipeline ==
    /\ running_ = TRUE
    /\ feed_pc = "check"
    /\ emitted = 0
    /\ late_batches = 0
    /\ tasks_ = <<>>
    /\ queue_mutex_ = 0
    /\ stop_ = FALSE
    /\ workers_ = [w \in Workers |-> IdleWorker]
    /\ main_pc = "running"
    /\ submitted = {}
    /\ runs = [b \in BatchNumbers |-> 0]

\* the workers blocked in condition_.wait
Waiting == {w \in Workers : workers_[w].pc = "waiting"}

\* feed_loop: while (running_)
FeedCheck ==
    /\ feed_pc = "check"
    /\ IF running_ THEN emitted < MaxBatches /\ feed_pc' = "callback"
       ELSE feed_pc' = "exited"
    /\ UNCHANGED <<running_, emitted, late_batches, tasks_, queue_mutex_, stop_, workers_,
                   main_pc, submitted, runs>>
    /\ UNCHANGED <<engineVars, riskVars, threadVars, strategyVars, demoVars>>

\* feed_loop: callback(orders); the callback calls pool.enqueue, which pushes
\* the task under queue_mutex_
FeedCallback ==
    /\ feed_pc = "callback"
    /\ queue_mutex_ = 0
    /\ emitted' = emitted + 1
    /\ late_batches' = IF running_ THEN late_batches ELSE late_batches + 1
    /\ tasks_' = Append(tasks_, emitted + 1)
    /\ feed_pc' = "notify"
    /\ UNCHANGED <<running_, queue_mutex_, stop_, workers_, main_pc, submitted, runs>>
    /\ UNCHANGED <<engineVars, riskVars, threadVars, strategyVars, demoVars>>

\* enqueue: condition_.notify_one(), then the callback returns and the feed
\* sleeps until the next tick
FeedNotify ==
    /\ feed_pc = "notify"
    /\ IF Waiting = {} THEN UNCHANGED workers_
       ELSE \E w \in Waiting : workers_' = [workers_ EXCEPT ![w].pc = "lock"]
    /\ feed_pc' = "check"
    /\ UNCHANGED <<running_, emitted, late_batches, tasks_, queue_mutex_, stop_, main_pc,
                   submitted, runs>>
    /\ UNCHANGED <<engineVars, riskVars, threadVars, strategyVars, demoVars>>

\* worker_loop: the unique_lock takes queue_mutex_ (on entry to the block, or
\* on the way out of a wait) and the predicate of the wait is evaluated; when
\* it is true the worker returns (stop_ set and no task left) or pops the front
\* task, unlocks and calls it; when it is false the worker, still holding
\* queue_mutex_, goes on to block
WorkerLock(w) ==
    /\ workers_[w].pc = "lock"
    /\ queue_mutex_ = 0
    /\ IF stop_ \/ tasks_ # <<>>
       THEN IF stop_ /\ tasks_ = <<>>
            THEN /\ workers_' = [workers_ EXCEPT ![w].pc = "exited"]
                 /\ UNCHANGED <<tasks_, runs, queue_mutex_>>
            ELSE /\ workers_' = [workers_ EXCEPT ![w].pc = "generating",
                                                 ![w].task = Head(tasks_)]
                 /\ tasks_' = Tail(tasks_)
                 /\ runs' = [runs EXCEPT ![Head(tasks_)] = @ + 1]
                 /\ UNCHANGED queue_mutex_
       ELSE /\ workers_' = [workers_ EXCEPT ![w].pc = "blocking"]
            /\ queue_mutex_' = w
            /\ UNCHANGED <<tasks_, runs>>
    /\ UNCHANGED <<running_, feed_pc, emitted, late_batches, stop_, main_pc, submitted>>
    /\ UNCHANGED <<engineVars, riskVars, threadVars, strategyVars, demoVars>>

\* condition_.wait: the worker releases queue_mutex_ and blocks
WorkerBlock(w) ==
    /\ workers_[w].pc = "blocking"
    /\ workers_' = [workers_ EXCEPT ![w].pc = "waiting"]
    /\ queue_mutex_' = 0
    /\ UNCHANGED <<running_, feed_pc, emitted, late_batches, tasks_, stop_, main_pc,
                   submitted, runs>>
    /\ UNCHANGED <<engineVars, riskVars, threadVars, strategyVars, demoVars>>

\* condition_.wait may return without a notification
SpuriousWake(w) ==
    /\ workers_[w].pc = "waiting"
    /\ workers_' = [workers_ EXCEPT ![w].pc = "lock"]
    /\ UNCHANGED <<running_, feed_pc, emitted, late_batches, tasks_, queue_mutex_, stop_,
                   main_pc, submitted, runs>>
    /\ UNCHANGED <<engineVars, riskVars, threadVars, strategyVars, demoVars>>

\* the configurations of the risk manager in the pipeline: the default one of
\* main.cpp, and one with a quantity limit, so that there is something to reject
PipelineConfigs == {RiskConfig(0, 0, 0, 0), RiskConfig(MaxLimit, 0, 0, 0)}

\* mutant of Signals: the orders generate_signals makes are Limit orders
Signals_Limit(b) ==
    {<<>>, <<Order(b, BUY, 1, MaxLimit, LIMIT)>>, <<Order(b, SELL, 1, UintMax, LIMIT)>>}

\* what generate_signals returns for a batch: nothing, or one Market order, a
\* Buy or a Sell (its id, a clock reading in the code, is the number of the
\* batch)
Signals(b) ==
    {<<>>, <<Order(b, BUY, 1, MaxLimit, MARKET)>>, <<Order(b, SELL, 1, UintMax, MARKET)>>}

\* feed_loop: the vector orders of batch b is a local of the body of the while
\* loop: it lives from the top of an iteration, through the callback and the
\* sleep, to the end of that iteration, that is, until the feed thread is next
\* at while (running_) and goes on
BatchAlive(b) ==
    \/ b = emitted /\ feed_pc \in {"notify", "check"}
    \/ b = emitted + 1 /\ feed_pc = "callback"

\* the task: strategy.generate_signals(market_orders) returns and
\* risk.filter_orders(signals) is entered.  market_orders is captured by
\* reference ([&]): it is the feed thread's vector orders.  When that vector is
\* gone the call reads whatever is in its place; what the call returns is any
\* of Signals in either case.
GenerateSignalsReturn(w) ==
    /\ workers_[w].pc = "generating"
    /\ \E signals \in Signals(workers_[w].task) :
          workers_' = [workers_ EXCEPT ![w].pc = "filtering", ![w].signals = signals,
                                       ![w].seen = orders_rejected_]
    /\ UNCHANGED <<running_, feed_pc, emitted, late_batches, tasks_, queue_mutex_, stop_,
                   main_pc, submitted, runs>>
    /\ UNCHANGED <<engineVars, riskVars, threadVars, strategyVars, demoVars>>

\* mutant of ToSubmit: the loop of the task runs over signals
ToSubmit_Signals(signals, filtered) == signals

\* the task: for (auto& order : filtered)
ToSubmit(signals, filtered) == filtered

\* the task: risk.filter_orders(signals) returns.  risk is shared by the
\* workers without a lock: ++orders_rejected_ writes back the value the worker
\* read plus one, whatever another worker has written in between
TaskFilterOrdersReturn(w) ==
    /\ workers_[w].pc = "filtering"
    /\ LET r == FilterLoop(workers_[w].signals, daily_volume_, <<>>, 0)
       IN /\ workers_' = [workers_ EXCEPT ![w].pc = "submitting", ![w].filtered = r.out,
                                          ![w].pending = ToSubmit(workers_[w].signals, r.out)]
          /\ orders_rejected_' = IF r.rejected > 0 THEN workers_[w].seen + r.rejected
                                 ELSE orders_rejected_
          /\ daily_volume_' = r.volume
    /\ UNCHANGED <<running_, feed_pc, emitted, late_batches, tasks_, queue_mutex_, stop_,
                   main_pc, submitted, runs>>
    /\ UNCHANGED <<engineVars, threadVars, config_, risk_pc, remaining, out, filter_call,
                   risk_calls, admitted_volume, strategyVars, demoVars>>

\* the task: engine.add_order(order) for the next order of the loop
SubmitOrder(w) ==
    /\ workers_[w].pc = "submitting"
    /\ workers_[w].pending # <<>>
    /\ SetEngine(RunAddOrder(EngineState, Head(workers_[w].pending)))
    /\ submitted' = submitted \cup {[order |-> Head(workers_[w].pending),
                                      task |-> workers_[w].task]}
    /\ workers_' = [workers_ EXCEPT ![w].pending = Tail(@)]
    /\ UNCHANGED <<running_, feed_pc, emitted, late_batches, tasks_, queue_mutex_, stop_,
                   main_pc, runs>>
    /\ UNCHANGED <<pc, incoming_order, last_call, next_id, cancels, before, ledger, riskVars,
                   threadVars, strategyVars, demoVars>>

\* the task returns; the worker goes round worker_loop
TaskReturn(w) ==
    /\ workers_[w].pc = "submitting"
    /\ workers_[w].pending = <<>>
    /\ workers_' = [workers_ EXCEPT ![w] = IdleWorker]
    /\ UNCHANGED <<running_, feed_pc, emitted, late_batches, tasks_, queue_mutex_, stop_,
                   main_pc, submitted, runs>>
    /\ UNCHANGED <<engineVars, riskVars, threadVars, strategyVars, demoVars>>

\* main: market_data.stop() clears running_
MarketDataStop ==
    /\ main_pc = "running"
    /\ running_' = FALSE
    /\ main_pc' = "join_feed"
    /\ UNCHANGED <<feed_pc, emitted, late_batches, tasks_, queue_mutex_, stop_, workers_,
                   submitted, runs>>
    /\ UNCHANGED <<engineVars, riskVars, threadVars, strategyVars, demoVars>>

\* mutant of FeedJoined: stop() does not wait for the feed thread
FeedJoined_NoWait == TRUE

\* feed_thread_.join() returns when the feed thread has left feed_loop
FeedJoined == feed_pc = "exited"

\* main: market_data.stop() joins the feed thread and returns
MarketDataJoin ==
    /\ main_pc = "join_feed"
    /\ FeedJoined
    /\ main_pc' = "shutdown"
    /\ UNCHANGED <<running_, feed_pc, emitted, late_batches, tasks_, queue_mutex_, stop_,
                   workers_, submitted, runs>>
    /\ UNCHANGED <<engineVars, riskVars, threadVars, strategyVars, demoVars>>

\* main: pool.shutdown() sets stop_; queue_mutex_ is not taken
ShutdownStop ==
    /\ main_pc = "shutdown"
    /\ stop_' = TRUE
    /\ main_pc' = "notify"
    /\ UNCHANGED <<running_, feed_pc, emitted, late_batches, tasks_, queue_mutex_, workers_,
                   submitted, runs>>
    /\ UNCHANGED <<engineVars, riskVars, threadVars, strategyVars, demoVars>>

\* shutdown: condition_.notify_all() wakes the workers that are blocked
ShutdownNotifyAll ==
    /\ main_pc = "notify"
    /\ workers_' = [w \in Workers |-> IF w \in Waiting THEN [workers_[w] EXCEPT !.pc = "lock"]
                                      ELSE workers_[w]]
    /\ main_pc' = "join_pool"
    /\ UNCHANGED <<running_, feed_pc, emitted, late_batches, tasks_, queue_mutex_, stop_,
                   submitted, runs>>
    /\ UNCHANGED <<engineVars, riskVars, threadVars, strategyVars, demoVars>>

\* shutdown: every worker is joined; shutdown returns
ShutdownJoin ==
    /\ main_pc = "join_pool"
    /\ \A w \in Workers : workers_[w].pc = "exited"
    /\ main_pc' = "done"
    /\ UNCHANGED <<running_, feed_pc, emitted, late_batches, tasks_, queue_mutex_, stop_,
                   workers_, submitted, runs>>
    /\ UNCHANGED <<engineVars, riskVars, threadVars, strategyVars, demoVars>>

\* ---- Indicators (indicators.cpp) ----
\* The doubles of the indicators are quotients of the integer prices of the
\* orders. A double is kept as the exact fraction <<numerator, denominator>>
\* with a positive denominator; the comparisons of the code are comparisons of
\* these fractions. The price history is a deque of doubles that hold whole
\* numbers, and is kept as a sequence of integers.
Frac(n, d) == IF d < 0 THEN <<-n, -d>> ELSE <<n, d>>
Whole(n) == <<n, 1>>
Less(a, b) == a[1] * b[2] < b[1] * a[2]
Plus(a, b) == <<a[1] * b[2] + b[1] * a[2], a[2] * b[2]>>
Minus(a, b) == <<a[1] * b[2] - b[1] * a[2], a[2] * b[2]>>
Times(a, b) == <<a[1] * b[1], a[2] * b[2]>>
\* a / b, for b # 0
Quot(a, b) == Frac(a[1] * b[2], a[2] * b[1])
Same(a, b) == a[1] * b[2] = b[1] * a[2]

\* std::accumulate over the elements first..last of a deque of whole numbers
RECURSIVE Accumulate(_, _, _)
Accumulate(values, first, last) ==
    IF first > last THEN 0 ELSE Accumulate(values, first, last - 1) + values[last]

\* Indicators::simple_moving_average of a deque of whole numbers: the mean of
\* the last period values
simple_moving_average(values, period) ==
    IF Len(values) < period \/ period = 0 THEN Whole(0)
    ELSE Frac(Accumulate(values, Len(values) - period + 1, Len(values)), period)

\* std::accumulate over the elements first..last of a deque of fractions
RECURSIVE AccumulateFractions(_, _, _)
AccumulateFractions(values, first, last) ==
    IF first > last THEN Whole(0)
    ELSE Plus(AccumulateFractions(values, first, last - 1), values[last])

\* Indicators::simple_moving_average of a deque of fractions
simple_moving_average_fractions(values, period) ==
    IF Len(values) < period \/ period = 0 THEN Whole(0)
    ELSE Quot(AccumulateFractions(values, Len(values) - period + 1, Len(values)),
              Whole(period))

\* Indicators::relative_strength_index
relative_strength_index(prices, period) ==
    IF Len(prices) < period + 1 THEN Whole(50)
    ELSE LET gains == [i \in 1..(Len(prices) - 1) |->
                          IF prices[i + 1] - prices[i] > 0
                          THEN prices[i + 1] - prices[i] ELSE 0]
             losses == [i \in 1..(Len(prices) - 1) |->
                          IF prices[i + 1] - prices[i] > 0
                          THEN 0 ELSE prices[i] - prices[i + 1]]
             avg_gain == Frac(Accumulate(gains, Len(gains) - period + 1, Len(gains)), period)
             avg_loss == Frac(Accumulate(losses, Len(losses) - period + 1, Len(losses)),
                              period)
         IN IF Len(gains) < period THEN Whole(50)
            ELSE IF avg_loss[1] = 0 THEN Whole(100)
            ELSE LET rs == Quot(avg_gain, avg_loss)
                 IN Minus(Whole(100), Quot(Whole(100), Plus(Whole(1), rs)))

\* mutant of macd: the lines are computed whatever the number of prices
macd_Unguarded(prices, fast_period, slow_period, signal_period) ==
    <<Minus(simple_moving_average(prices, fast_period),
            simple_moving_average(prices, slow_period)), Whole(0)>>

\* Indicators::macd: the pair (macd_line, signal_line)
macd(prices, fast_period, slow_period, signal_period) ==
    IF Len(prices) < slow_period THEN <<Whole(0), Whole(0)>>
    ELSE LET fast_ema == simple_moving_average(prices, fast_period)
             slow_ema == simple_moving_average(prices, slow_period)
             macd_line == Minus(fast_ema, slow_ema)
             \* the loop runs over i = slow_period .. size - 1 with the first
             \* i + 1 prices
             macd_values ==
                 [k \in 1..(Len(prices) - slow_period) |->
                     LET temp_prices == SubSeq(prices, 1, slow_period + k)
                     IN Minus(simple_moving_average(temp_prices, fast_period),
                              simple_moving_average(temp_prices, slow_period))]
             signal_line ==
                 IF Len(macd_values) >= signal_period
                 THEN simple_moving_average_fractions(macd_values, signal_period)
                 ELSE Whole(0)
         IN <<macd_line, signal_line>>

\* Indicators::price_change_percent
price_change_percent(prices, period) ==
    IF Len(prices) < period + 1 THEN Whole(0)
    ELSE LET current_price == prices[Len(prices)]
             past_price == prices[Len(prices) - period]
         IN IF past_price = 0 THEN Whole(0)
            ELSE Frac((current_price - past_price) * 100, past_price)

\* Indicators::momentum_score is (price_vs_short + ma_trend + momentum_factor) / 3
\* with momentum_factor = tanh(price_change / 10), which is no fraction: the
\* score is kept as the sum of its two signs and the argument of tanh
momentum_score(prices, short_period, long_period) ==
    IF Len(prices) < long_period THEN [signs |-> 0, change |-> Whole(0)]
    ELSE LET short_sma == simple_moving_average(prices, short_period)
             long_sma == simple_moving_average(prices, long_period)
             current_price == Whole(prices[Len(prices)])
             price_vs_short == IF Less(short_sma, current_price) THEN 1 ELSE -1
             ma_trend == IF Less(long_sma, short_sma) THEN 1 ELSE -1
             price_change == price_change_percent(prices, short_period)
         IN [signs |-> price_vs_short + ma_trend,
             change |-> Quot(price_change, Whole(10))]

\* the x with tanh(x) = level, for the levels the comparisons of the strategy
\* need: atanh(3/4) = 0.97295..., atanh(9/10) = 1.47221...
Atanh(level) ==
    IF Same(level, Whole(0)) THEN Whole(0)
    ELSE IF Same(level, Frac(3, 4)) THEN Frac(97296, 100000)
    ELSE Frac(147222, 100000)

\* momentum_score > threshold: tanh(change) > 3 * threshold - signs; tanh lies
\* strictly between -1 and 1 for the price changes of the model
ScoreAbove(score, threshold) ==
    LET level == Minus(Times(Whole(3), threshold), Whole(score.signs))
    IN IF ~Less(level, Whole(1)) THEN FALSE
       ELSE IF ~Less(Whole(-1), level) THEN TRUE
       ELSE Less(Atanh(level), score.change)

\* momentum_score < 0.0: tanh(change) < -signs
ScoreNegative(score) ==
    IF score.signs > 0 THEN FALSE
    ELSE IF score.signs < 0 THEN TRUE
    ELSE Less(score.change, Whole(0))

\* ---- StrategyEngine (strategy.h, strategy.cpp) ----
\* enum class SignalType: BUY, SELL and
HOLD == "HOLD"

\* struct StrategyConfig; the periods are scaled down with the history
StrategyConfig(threshold, overbought, long, size, stop_loss, take_profit) ==
    [momentum_threshold |-> threshold, rsi_overbought |-> overbought,
     short_period |-> ShortPeriod, long_period |-> long, rsi_period |-> RsiPeriod,
     position_size |-> size, stop_loss_pct |-> stop_loss, take_profit_pct |-> take_profit]

\* the defaults of struct StrategyConfig
DefaultStrategyConfig ==
    StrategyConfig(Frac(3, 10), Whole(70), LongPeriod, Whole(100), Whole(2), Whole(5))

\* the configuration main.cpp sets
MainStrategyConfig ==
    StrategyConfig(Frac(1, 4), Whole(75), MainLongPeriod, Whole(50), Frac(3, 2), Whole(3))

\* the periods generate_momentum_signal passes to macd.  In the code they are
\* 12, 26, 9 whatever the configuration; the slow period lies below the default
\* long_period (26 < 30) and above the one main.cpp sets (20 < 26), and each
\* configuration is scaled down so that this order is kept.
MacdPeriods(config) ==
    [fast |-> MacdFast,
     slow |-> IF config.long_period < LongPeriod THEN MainMacdSlow ELSE MacdSlow,
     signal |-> MacdSignal]

StrategyConfigs == {DefaultStrategyConfig, MainStrategyConfig}

\* the record of a generate_signals call that has not been made
NoSignal == [type |-> "NONE", price |-> Whole(0), quantity |-> Whole(0), reason |-> ""]
NoSignalCall ==
    [market_orders |-> <<>>, points |-> 0, signal |-> NoSignal, pnl |-> Whole(0),
     strategy_orders |-> <<>>]

\* StrategyEngine::StrategyEngine(config) and the member initialisers of strategy.h
NewStrategyEngine(config) ==
    /\ strategy_config = config
    /\ price_history = <<>>
    /\ volume_history = <<>>
    /\ in_position = FALSE
    /\ entry_price = Whole(0)
    /\ last_signal_type_ = HOLD
    /\ last_signal_reason_ = ""
    /\ last_signal_confidence_ = Whole(0)
    /\ last_signal_pnl_pct_ = Whole(0)
    /\ strategy_call = NoSignalCall
    /\ last_side = "NONE"

\* the readings of the clock that become the order_id of a strategy order
Clock == {1, 2}

\* the prices of the orders handed to generate_signals, and the quantity of
\* the order at each price
StrategyPrices == {1, 2, MaxStrategyPrice}
StrategyQuantity(p) == MaxStrategyPrice + 1 - p

\* the longest batch handed to generate_signals: long enough for one call to
\* take a history that is short of long_period to the cap
MaxSignalBatch == MaxHistory - LongPeriod + 1

\* the batches handed to generate_signals: Market orders at any of the prices
\* and Limit orders
StrategyInputs ==
    {[price |-> p, type |-> MARKET] : p \in StrategyPrices} \cup {[price |-> 1, type |-> LIMIT]}
StrategyBatches ==
    UNION {[1..n -> {Order(1, BUY, i.price, StrategyQuantity(i.price), i.type) :
                        i \in StrategyInputs}] : n \in 0..MaxSignalBatch}

\* mutant of PopFront: the newest element is dropped
PopFront_Back(history) == SubSeq(history, 1, Len(history) - 1)

\* deque::pop_front
PopFront(history) == Tail(history)

\* generate_signals, the body of the loop over market_orders
PushHistory(histories, order) ==
    IF order.type = MARKET
    THEN LET prices == Append(histories.prices, order.price)
             volumes == Append(histories.volumes, order.quantity)
         IN IF Len(prices) > MaxHistory
            THEN [prices |-> PopFront(prices), volumes |-> PopFront(volumes)]
            ELSE [prices |-> prices, volumes |-> volumes]
    ELSE histories

\* generate_signals, the loop over market_orders
RECURSIVE UpdateHistory(_, _)
UpdateHistory(histories, market_orders) ==
    IF market_orders = <<>> THEN histories
    ELSE UpdateHistory(PushHistory(histories, Head(market_orders)), Tail(market_orders))

\* generate_momentum_signal: pnl_pct of the open position
PnlPct(current_price, entry) ==
    Times(Quot(Minus(current_price, entry), entry), Whole(100))

\* mutant of BuyConditions: one condition is enough
BuyConditions_Any(strong_momentum, rsi_not_overbought, macd_bullish, price_above_ma) ==
    strong_momentum \/ rsi_not_overbought \/ macd_bullish \/ price_above_ma

\* generate_momentum_signal: the test of the BUY branch
BuyConditions(strong_momentum, rsi_not_overbought, macd_bullish, price_above_ma) ==
    strong_momentum /\ rsi_not_overbought /\ macd_bullish /\ price_above_ma

\* mutant of SellConditions: all conditions are needed
SellConditions_All(momentum_weakening, rsi_overbought, macd_bearish, price_below_ma) ==
    momentum_weakening /\ rsi_overbought /\ macd_bearish /\ price_below_ma

\* generate_momentum_signal: the test of the SELL branch
SellConditions(momentum_weakening, rsi_overbought, macd_bearish, price_below_ma) ==
    momentum_weakening \/ rsi_overbought \/ macd_bearish \/ price_below_ma

\* StrategyEngine::generate_momentum_signal, for the strategy self =
\* [config, price_history, in_position, entry_price]. The reason is kept as the
\* words it begins with; the confidence, a weighted mean that involves tanh,
\* is left out of the signal.
generate_momentum_signal(self, current_price) ==
    LET config == self.config
        prices == self.price_history
        signal == [type |-> HOLD, price |-> current_price, quantity |-> config.position_size,
                   reason |-> IF Len(prices) < config.long_period
                              THEN "Insufficient data" ELSE "Momentum"]
        score == momentum_score(prices, config.short_period, config.long_period)
        rsi == relative_strength_index(prices, config.rsi_period)
        lines == macd(prices, MacdPeriods(config).fast, MacdPeriods(config).slow,
                      MacdPeriods(config).signal)
        macd_line == lines[1]
        signal_line == lines[2]
        short_sma == simple_moving_average(prices, config.short_period)
        pnl_pct == PnlPct(current_price, self.entry_price)
    IN IF self.in_position /\ ~Less(Minus(Whole(0), config.stop_loss_pct), pnl_pct)
       THEN [signal EXCEPT !.type = SELL, !.reason = "Stop Loss triggered"]
       ELSE IF self.in_position /\ ~Less(pnl_pct, config.take_profit_pct)
       THEN [signal EXCEPT !.type = SELL, !.reason = "Take Profit triggered"]
       ELSE IF ~self.in_position
       THEN IF BuyConditions(ScoreAbove(score, config.momentum_threshold),
                             Less(rsi, config.rsi_overbought),
                             Less(signal_line, macd_line),
                             Less(short_sma, current_price))
            THEN [signal EXCEPT !.type = BUY]
            ELSE signal
       ELSE IF SellConditions(ScoreNegative(score),
                              Less(config.rsi_overbought, rsi),
                              Less(macd_line, signal_line),
                              Less(current_price, short_sma))
            THEN [signal EXCEPT !.type = SELL]
            ELSE signal

\* static_cast<Price>(signal.price * 100)
ToPrice(price) == (price[1] * 100) \div price[2]

\* static_cast<Quantity>(signal.quantity)
ToQuantity(quantity) == quantity[1] \div quantity[2]

\* mutant of PositionAfter: the position is not tracked
PositionAfter_Stays(type, position) == position

\* generate_signals: in_position after a signal that is not HOLD
PositionAfter(type, position) ==
    IF type = BUY /\ ~position THEN TRUE
    ELSE IF type = SELL /\ position THEN FALSE
    ELSE position

\* mutant of PushOrder: the order is returned twice
PushOrder_Twice(strategy_orders, order) == Append(Append(strategy_orders, order), order)

\* strategy_orders.push_back(order)
PushOrder(strategy_orders, order) == Append(strategy_orders, order)

\* StrategyEngine::generate_signals(market_orders); the order_id of the order
\* is the reading of the clock
GenerateSignals(market_orders) ==
    \E histories \in {UpdateHistory([prices |-> price_history, volumes |-> volume_history],
                                    market_orders)} :
    \E signal \in {IF Len(histories.prices) < strategy_config.long_period
                   THEN NoSignal    \* the early return: no signal is computed
                   ELSE generate_momentum_signal(
                            [config |-> strategy_config, price_history |-> histories.prices,
                             in_position |-> in_position, entry_price |-> entry_price],
                            Whole(histories.prices[Len(histories.prices)]))} :
        LET order(now) == Order(now, IF signal.type = BUY THEN BUY ELSE SELL,
                                ToPrice(signal.price), ToQuantity(signal.quantity), MARKET)
            \* what the call leaves behind: the argument, the length of the
            \* history before the call, the signal, the local pnl, the result
            call(pnl, strategy_orders) ==
                [market_orders |-> market_orders, points |-> Len(price_history),
                 signal |-> signal, pnl |-> pnl, strategy_orders |-> strategy_orders]
        IN /\ price_history' = histories.prices
           /\ volume_history' = histories.volumes
           /\ IF signal.type \in {BUY, SELL}
              THEN /\ \E now \in Clock :
                        strategy_call' =
                            call(IF signal.type = SELL /\ in_position
                                 THEN PnlPct(signal.price, entry_price) ELSE Whole(0),
                                 PushOrder(<<>>, order(now)))
                   /\ last_side' = IF signal.type = BUY THEN BUY ELSE SELL
                   /\ in_position' = PositionAfter(signal.type, in_position)
                   /\ entry_price' = IF signal.type = BUY /\ ~in_position THEN signal.price
                                     ELSE IF signal.type = SELL /\ in_position THEN Whole(0)
                                     ELSE entry_price
              ELSE /\ strategy_call' = call(Whole(0), <<>>)
                   /\ UNCHANGED <<in_position, entry_price, last_side>>
           /\ UNCHANGED <<strategy_config, last_signal_type_, last_signal_reason_,
                          last_signal_confidence_, last_signal_pnl_pct_>>
           /\ UNCHANGED <<engineVars, riskVars, threadVars, pipelineVars, demoVars>>

\* ---- ReadWriteLock (the single-file demo) ----
LockReaders == 1..MaxReaders
LockWriters == (MaxReaders + 1)..(MaxReaders + MaxWriters)
LockThreads == LockReaders \cup LockWriters \cup Threads

\* ReadWriteLock rw_lock: no reader, no writer, nobody in a call
NewReadWriteLock ==
    /\ readers_ = 0
    /\ writer_ = FALSE
    /\ writer_mutex_ = 0
    /\ lock_pc = [t \in LockThreads |-> "idle"]
    /\ lock_calls = 0

\* the threads blocked in writer_cv_.wait
LockWaiting == {t \in LockThreads : lock_pc[t] = "w_waiting"}

\* read_lock is called
ReadLockCall(t) ==
    /\ lock_pc[t] = "idle"
    /\ lock_calls < MaxLockCalls
    /\ lock_calls' = lock_calls + 1
    /\ lock_pc' = [lock_pc EXCEPT ![t] = "r_spin"]
    /\ UNCHANGED <<readers_, writer_, writer_mutex_>>
    /\ UNCHANGED <<programVars, notLockVars>>

\* read_lock: while (writer_.load()) yield is left
ReadLockSpin(t) ==
    /\ lock_pc[t] = "r_spin"
    /\ ~writer_
    /\ lock_pc' = [lock_pc EXCEPT ![t] = "r_add"]
    /\ UNCHANGED <<readers_, writer_, writer_mutex_, lock_calls>>
    /\ UNCHANGED <<programVars, notLockVars>>

\* read_lock: readers_.fetch_add(1)
ReadLockAdd(t) ==
    /\ lock_pc[t] = "r_add"
    /\ readers_' = readers_ + 1
    /\ lock_pc' = [lock_pc EXCEPT ![t] = "r_check"]
    /\ UNCHANGED <<writer_, writer_mutex_, lock_calls>>
    /\ UNCHANGED <<programVars, notLockVars>>

\* mutant of ReadAcquired: the reader goes on whatever the writer flag is
ReadAcquired_Always(writer) == TRUE

\* read_lock: if (!writer_.load()) break
ReadAcquired(writer) == ~writer

\* read_lock: the second look at writer_: the lock is taken, or the reader
\* goes on to step back
ReadLockCheck(t) ==
    /\ lock_pc[t] = "r_check"
    /\ lock_pc' = [lock_pc EXCEPT ![t] = IF ReadAcquired(writer_) THEN "reading" ELSE "r_sub"]
    /\ UNCHANGED <<readers_, writer_, writer_mutex_, lock_calls>>
    /\ UNCHANGED <<programVars, notLockVars>>

\* read_lock: readers_.fetch_sub(1) and round the outer loop
ReadLockSub(t) ==
    /\ lock_pc[t] = "r_sub"
    /\ readers_' = readers_ - 1
    /\ lock_pc' = [lock_pc EXCEPT ![t] = "r_spin"]
    /\ UNCHANGED <<writer_, writer_mutex_, lock_calls>>
    /\ UNCHANGED <<programVars, notLockVars>>

\* read_unlock, called by a thread that holds the lock for reading
ReadUnlock(t) ==
    /\ lock_pc[t] = "reading"
    /\ readers_' = readers_ - 1
    /\ lock_pc' = [lock_pc EXCEPT ![t] = "idle"]
    /\ UNCHANGED <<writer_, writer_mutex_, lock_calls>>
    /\ UNCHANGED <<programVars, notLockVars>>

\* write_lock: std::unique_lock lock(writer_mutex_), and the same mutex taken
\* again by a wait that was woken
WriteLockMutex(t) ==
    /\ lock_pc[t] \in {"w_lock", "w_wake"}
    /\ writer_mutex_ = 0
    /\ writer_mutex_' = t
    /\ lock_pc' = [lock_pc EXCEPT ![t] = "w_check"]
    /\ UNCHANGED <<readers_, writer_, lock_calls>>
    /\ UNCHANGED <<programVars, notLockVars>>

\* write_lock: writer_cv_.wait evaluates its predicate !writer_.load() with the
\* mutex held
WriteLockCheck(t) ==
    /\ lock_pc[t] = "w_check"
    /\ lock_pc' = [lock_pc EXCEPT ![t] = IF ~writer_ THEN "w_set" ELSE "w_block"]
    /\ UNCHANGED <<readers_, writer_, writer_mutex_, lock_calls>>
    /\ UNCHANGED <<programVars, notLockVars>>

\* write_lock: the predicate was false: the wait releases the mutex and blocks
WriteLockBlock(t) ==
    /\ lock_pc[t] = "w_block"
    /\ writer_mutex_' = 0
    /\ lock_pc' = [lock_pc EXCEPT ![t] = "w_waiting"]
    /\ UNCHANGED <<readers_, writer_, lock_calls>>
    /\ UNCHANGED <<programVars, notLockVars>>

\* a wait returns without a notification: this may happen, it need not
WriteLockSpuriousWake(t) ==
    /\ lock_pc[t] = "w_waiting"
    /\ lock_pc' = [lock_pc EXCEPT ![t] = "w_wake"]
    /\ UNCHANGED <<readers_, writer_, writer_mutex_, lock_calls>>
    /\ UNCHANGED <<programVars, notLockVars>>

\* write_lock: writer_.store(true)
WriteLockSet(t) ==
    /\ lock_pc[t] = "w_set"
    /\ writer_' = TRUE
    /\ lock_pc' = [lock_pc EXCEPT ![t] = "w_drain"]
    /\ UNCHANGED <<readers_, writer_mutex_, lock_calls>>
    /\ UNCHANGED <<programVars, notLockVars>>

\* mutant of ReadersGone: the writer does not wait for the readers
ReadersGone_Always(readers) == TRUE

\* write_lock: while (readers_.load() > 0) yield is left
ReadersGone(readers) == ~(readers > 0)

\* write_lock: the readers are gone; the call returns and the unique_lock
\* releases writer_mutex_
WriteLockDrain(t) ==
    /\ lock_pc[t] = "w_drain"
    /\ ReadersGone(readers_)
    /\ writer_mutex_' = 0
    /\ lock_pc' = [lock_pc EXCEPT ![t] = "writing"]
    /\ UNCHANGED <<readers_, writer_, lock_calls>>
    /\ UNCHANGED <<programVars, notLockVars>>

\* write_unlock: writer_.store(false)
WriteUnlockStore(t) ==
    /\ lock_pc[t] = "w_unlock"
    /\ writer_' = FALSE
    /\ lock_pc' = [lock_pc EXCEPT ![t] = "w_notify"]
    /\ UNCHANGED <<readers_, writer_mutex_, lock_calls>>
    /\ UNCHANGED <<programVars, notLockVars>>

\* write_unlock: writer_cv_.notify_one() wakes one of the threads that are
\* blocked in the wait, if there is one, and the call returns
WriteUnlockNotify(t) ==
    /\ lock_pc[t] = "w_notify"
    /\ IF LockWaiting = {}
       THEN lock_pc' = [lock_pc EXCEPT ![t] = "idle"]
       ELSE \E w \in LockWaiting : lock_pc' = [lock_pc EXCEPT ![t] = "idle", ![w] = "w_wake"]
    /\ UNCHANGED <<readers_, writer_, writer_mutex_, lock_calls>>
    /\ UNCHANGED <<programVars, notLockVars>>

\* the writer threads of the test in main: rw_lock.write_lock() is called
WriterLockCall(t) ==
    /\ lock_pc[t] = "idle"
    /\ lock_calls < MaxLockCalls
    /\ lock_calls' = lock_calls + 1
    /\ lock_pc' = [lock_pc EXCEPT ![t] = "w_lock"]
    /\ UNCHANGED <<readers_, writer_, writer_mutex_>>
    /\ UNCHANGED <<programVars, notLockVars>>

\* the writer threads of the test in main: shared_data.fetch_add(1) is done and
\* rw_lock.write_unlock() is called
WriterUnlockCall(t) ==
    /\ lock_pc[t] = "writing"
    /\ lock_pc' = [lock_pc EXCEPT ![t] = "w_unlock"]
    /\ UNCHANGED <<readers_, writer_, writer_mutex_, lock_calls>>
    /\ UNCHANGED <<programVars, notLockVars>>

\* ---- AdvancedMatchingEngine (the single-file demo) ----
\* Its book, index, log and counters are the variables of the matching engine;
\* order_book_lock_ is the ReadWriteLock above, and thread t is in write_lock
\* or write_unlock as lock_pc[t] says.  The lock_guard on trade_events_mutex_
\* begins and ends inside one match, and only a holder of the write lock
\* takes it.

\* no call: [op, order, order_id]
NoAdvCall == [op |-> "none", order |-> nullptr, order_id |-> 0]

\* AdvancedMatchingEngine advanced_engine: nobody in a call
NewAdvancedMatchingEngine ==
    /\ order_lookup_mutex_ = 0
    /\ adv_pc = [t \in Threads |-> "idle"]
    /\ adv_call = [t \in Threads |-> NoAdvCall]
    /\ adv_calls = 0

\* add_order is called, and calls order_book_lock_.write_lock()
AdvAddOrderCall(t, order) ==
    /\ adv_pc[t] = "idle"
    /\ adv_calls < MaxAdvCalls
    /\ adv_calls' = adv_calls + 1
    /\ next_id' = next_id + 1
    /\ adv_call' = [adv_call EXCEPT ![t] = [op |-> "add_order", order |-> order,
                                            order_id |-> order.order_id]]
    /\ adv_pc' = [adv_pc EXCEPT ![t] = "matching"]
    /\ lock_pc' = [lock_pc EXCEPT ![t] = "w_lock"]
    /\ UNCHANGED <<engine, order_lookup_mutex_, readers_, writer_, writer_mutex_, lock_calls>>
    /\ UNCHANGED notAdvancedVars

\* match_order_against_side, with the write lock held: one iteration of the
\* loop that trades, up to the lock_guard on order_lookup_mutex_ that a filled
\* resting order leads to
AdvMatchStep(t) ==
    /\ adv_pc[t] = "matching"
    /\ lock_pc[t] = "writing"
    /\ LoopContinues(adv_call[t].order, Opposite(EngineState, adv_call[t].order))
    /\ LET resting_order == GetBestOrder(Opposite(EngineState, adv_call[t].order))
           filled == resting_order.quantity
                     - TradeQuantity(adv_call[t].order, resting_order) = 0
           r == MatchOnce(EngineState, adv_call[t].order)
       IN /\ SetEngine([r.st EXCEPT !.lookup = order_lookup_])
          /\ adv_call' = [adv_call EXCEPT ![t].order = r.order,
                                          ![t].order_id = resting_order.order_id]
          /\ adv_pc' = [adv_pc EXCEPT ![t] = IF filled THEN "erase" ELSE "matching"]
    /\ UNCHANGED <<next_id, order_lookup_mutex_, adv_calls, lockVars>>
    /\ UNCHANGED notAdvancedVars

\* match_order_against_side: the lock_guard takes order_lookup_mutex_, the
\* filled order is erased from order_lookup_, the guard releases the mutex
AdvEraseLookup(t) ==
    /\ adv_pc[t] = "erase"
    /\ order_lookup_mutex_ = 0
    /\ order_lookup_' = MapErase(order_lookup_, adv_call[t].order_id)
    /\ adv_pc' = [adv_pc EXCEPT ![t] = "matching"]
    /\ UNCHANGED <<bid_side_, ask_side_, trade_events_, processed_orders_, matched_trades_>>
    /\ UNCHANGED <<next_id, order_lookup_mutex_, adv_call, adv_calls, lockVars>>
    /\ UNCHANGED notAdvancedVars

\* process_limit_order / process_market_order: the loop is left; the
\* remainder of a limit order is put on its side of the book, and the
\* lock_guard on order_lookup_mutex_ comes next; otherwise add_order calls
\* order_book_lock_.write_unlock()
AdvProcessed(t) ==
    /\ adv_pc[t] = "matching"
    /\ lock_pc[t] = "writing"
    /\ ~LoopContinues(adv_call[t].order, Opposite(EngineState, adv_call[t].order))
    /\ LET order == adv_call[t].order
       IN IF RestsRemainder(order)
          THEN /\ bid_side_' = IF order.side = BUY THEN SideAddOrder(bid_side_, order)
                               ELSE bid_side_
               /\ ask_side_' = IF order.side = SELL THEN SideAddOrder(ask_side_, order)
                               ELSE ask_side_
               /\ adv_pc' = [adv_pc EXCEPT ![t] = "rest"]
               /\ UNCHANGED lock_pc
          ELSE /\ adv_pc' = [adv_pc EXCEPT ![t] = "unlock"]
               /\ lock_pc' = [lock_pc EXCEPT ![t] = "w_unlock"]
               /\ UNCHANGED <<bid_side_, ask_side_>>
    /\ UNCHANGED <<order_lookup_, trade_events_, processed_orders_, matched_trades_>>
    /\ UNCHANGED <<next_id, order_lookup_mutex_, adv_call, adv_calls>>
    /\ UNCHANGED <<readers_, writer_, writer_mutex_, lock_calls>>
    /\ UNCHANGED notAdvancedVars

\* process_limit_order: the lock_guard takes order_lookup_mutex_, the order is
\* entered in order_lookup_, the guard releases the mutex; add_order calls
\* order_book_lock_.write_unlock()
AdvRestLookup(t) ==
    /\ adv_pc[t] = "rest"
    /\ order_lookup_mutex_ = 0
    /\ order_lookup_' = MapPut(order_lookup_, adv_call[t].order.order_id,
                               <<adv_call[t].order.price, adv_call[t].order.side>>)
    /\ adv_pc' = [adv_pc EXCEPT ![t] = "unlock"]
    /\ lock_pc' = [lock_pc EXCEPT ![t] = "w_unlock"]
    /\ UNCHANGED <<bid_side_, ask_side_, trade_events_, processed_orders_, matched_trades_>>
    /\ UNCHANGED <<next_id, order_lookup_mutex_, adv_call, adv_calls>>
    /\ UNCHANGED <<readers_, writer_, writer_mutex_, lock_calls>>
    /\ UNCHANGED notAdvancedVars

\* add_order: write_unlock has returned; processed_orders_++, the call returns
AdvAddOrderReturn(t) ==
    /\ adv_pc[t] = "unlock"
    /\ adv_call[t].op = "add_order"
    /\ lock_pc[t] = "idle"
    /\ processed_orders_' = FetchAdd(processed_orders_)
    /\ adv_pc' = [adv_pc EXCEPT ![t] = "idle"]
    /\ adv_call' = [adv_call EXCEPT ![t] = NoAdvCall]
    /\ UNCHANGED <<bid_side_, ask_side_, order_lookup_, trade_events_, matched_trades_>>
    /\ UNCHANGED <<next_id, order_lookup_mutex_, adv_calls, lockVars>>
    /\ UNCHANGED notAdvancedVars

\* cancel_order is called and reaches its lock_guard
AdvCancelOrderCall(t, order_id) ==
    /\ adv_pc[t] = "idle"
    /\ adv_calls < MaxAdvCalls
    /\ adv_calls' = adv_calls + 1
    /\ adv_call' = [adv_call EXCEPT ![t] = [op |-> "cancel_order", order |-> nullptr,
                                            order_id |-> order_id]]
    /\ adv_pc' = [adv_pc EXCEPT ![t] = "find"]
    /\ UNCHANGED <<engine, next_id, order_lookup_mutex_, lockVars>>
    /\ UNCHANGED notAdvancedVars

\* cancel_order: the lock_guard takes order_lookup_mutex_; the id is not in
\* order_lookup_ and the call returns false, or it is and the call goes on
\* to order_book_lock_.write_lock() with the mutex held
AdvCancelFind(t) ==
    /\ adv_pc[t] = "find"
    /\ order_lookup_mutex_ = 0
    /\ IF adv_call[t].order_id \notin DOMAIN order_lookup_
       THEN /\ adv_pc' = [adv_pc EXCEPT ![t] = "idle"]
            /\ adv_call' = [adv_call EXCEPT ![t] = NoAdvCall]
            /\ UNCHANGED <<order_lookup_mutex_, lock_pc>>
       ELSE /\ order_lookup_mutex_' = t
            /\ adv_call' = [adv_call EXCEPT ![t].order =
                               [price |-> order_lookup_[adv_call[t].order_id][1],
                                side |-> order_lookup_[adv_call[t].order_id][2]]]
            /\ adv_pc' = [adv_pc EXCEPT ![t] = "removing"]
            /\ lock_pc' = [lock_pc EXCEPT ![t] = "w_lock"]
    /\ UNCHANGED <<engine, next_id, adv_calls>>
    /\ UNCHANGED <<readers_, writer_, writer_mutex_, lock_calls>>
    /\ UNCHANGED notAdvancedVars

\* cancel_order, with the write lock held: the order is removed from its side
\* and erased from order_lookup_; order_book_lock_.write_unlock() is called
AdvCancelRemove(t) ==
    /\ adv_pc[t] = "removing"
    /\ lock_pc[t] = "writing"
    /\ LET side == adv_call[t].order.side
           r == SideRemoveOrder(IF side = BUY THEN bid_side_ ELSE ask_side_,
                                adv_call[t].order_id, adv_call[t].order.price)
       IN /\ bid_side_' = IF side = BUY THEN r.side ELSE bid_side_
          /\ ask_side_' = IF side = SELL THEN r.side ELSE ask_side_
          /\ order_lookup_' = IF r.removed THEN MapErase(order_lookup_, adv_call[t].order_id)
                              ELSE order_lookup_
    /\ adv_pc' = [adv_pc EXCEPT ![t] = "unlock"]
    /\ lock_pc' = [lock_pc EXCEPT ![t] = "w_unlock"]
    /\ UNCHANGED <<trade_events_, processed_orders_, matched_trades_>>
    /\ UNCHANGED <<next_id, order_lookup_mutex_, adv_call, adv_calls>>
    /\ UNCHANGED <<readers_, writer_, writer_mutex_, lock_calls>>
    /\ UNCHANGED notAdvancedVars

\* cancel_order: write_unlock has returned; the call returns and its
\* lock_guard releases order_lookup_mutex_
AdvCancelOrderReturn(t) ==
    /\ adv_pc[t] = "unlock"
    /\ adv_call[t].op = "cancel_order"
    /\ lock_pc[t] = "idle"
    /\ order_lookup_mutex_' = 0
    /\ adv_pc' = [adv_pc EXCEPT ![t] = "idle"]
    /\ adv_call' = [adv_call EXCEPT ![t] = NoAdvCall]
    /\ UNCHANGED <<engine, next_id, adv_calls, lockVars>>
    /\ UNCHANGED notAdvancedVars

\* ---- Barrier (the single-file demo) ----
BarrierThreads == 1..MaxParties

\* Barrier barrier(count)
NewBarrier(count) ==
    /\ count_ = count
    /\ initial_count_ = count
    /\ barrier_pc = [t \in BarrierThreads |-> "idle"]
    /\ entered = [t \in BarrierThreads |-> 0]

\* the threads blocked in cv_.wait
BarrierWaiting == {t \in BarrierThreads : barrier_pc[t] = "waiting"}

\* a thread of the test calls barrier.wait()
BarrierWaitCall(t) ==
    /\ barrier_pc[t] = "idle"
    /\ entered[t] < MaxPhases
    /\ entered' = [entered EXCEPT ![t] = @ + 1]
    /\ barrier_pc' = [barrier_pc EXCEPT ![t] = "lock"]
    /\ UNCHANGED <<count_, initial_count_>>
    /\ UNCHANGED <<programVars, notBarrierVars>>

\* mutant of Released: a woken thread goes on whatever count_ is
Released_Always(count, initial_count) == TRUE

\* the predicate of cv_.wait: count_ == initial_count_
Released(count, initial_count) == count = initial_count

\* wait(): the unique_lock is taken and count_ decremented.  The last thread
\* resets count_, calls notify_all and returns; any other evaluates the
\* predicate of the wait, and blocks when it is false.  All of this is done
\* with mutex_ held, and mutex_ is free again when it is done: it is one step.
BarrierEnter(t) ==
    /\ barrier_pc[t] = "lock"
    /\ IF count_ - 1 = 0
       THEN /\ count_' = initial_count_
            /\ barrier_pc' = [u \in BarrierThreads |->
                                 IF u = t THEN "idle"
                                 ELSE IF u \in BarrierWaiting THEN "wake"
                                 ELSE barrier_pc[u]]
       ELSE /\ count_' = count_ - 1
            /\ barrier_pc' = [barrier_pc EXCEPT ![t] =
                                 IF Released(count_ - 1, initial_count_) THEN "idle" ELSE "waiting"]
    /\ UNCHANGED <<initial_count_, entered>>
    /\ UNCHANGED <<programVars, notBarrierVars>>

\* wait(): a woken thread takes mutex_ again and evaluates the predicate: it
\* returns, or it blocks again; mutex_ is free again in either case
BarrierWake(t) ==
    /\ barrier_pc[t] = "wake"
    /\ barrier_pc' = [barrier_pc EXCEPT ![t] =
                         IF Released(count_, initial_count_) THEN "idle" ELSE "waiting"]
    /\ UNCHANGED <<count_, initial_count_, entered>>
    /\ UNCHANGED <<programVars, notBarrierVars>>

\* a wait returns without a notification: this may happen, it need not
BarrierSpuriousWake(t) ==
    /\ barrier_pc[t] = "waiting"
    /\ barrier_pc' = [barrier_pc EXCEPT ![t] = "wake"]
    /\ UNCHANGED <<count_, initial_count_, entered>>
    /\ UNCHANGED <<programVars, notBarrierVars>>

\* ---- LockFreeQueue (the single-file demo) ----
QueueProducers == 1..MaxProducers
QueueConsumers == (MaxProducers + 1)..(MaxProducers + MaxConsumers)
QueueThreads == QueueProducers \cup QueueConsumers

\* the addresses operator new hands out; 0 is the null pointer
Nodes == 1..MaxNodes

\* the values pushed: the n-th push call of a run pushes n
QueueValues == 1..MaxPushes

\* the locals of a push or pop call
NoLocals == [new_node |-> 0, expected_head |-> 0, expected_tail |-> 0, expected_next |-> 0,
             item |-> 0, began |-> 0]

\* memory that holds no Node: never handed out, or deleted
NoNode(state) == [data |-> 0, next |-> 0, state |-> state]

\* LockFreeQueue(): a dummy node that head_ and tail_ point to
NewLockFreeQueue ==
    /\ q_heap = [a \in Nodes |-> IF a = 1 THEN [data |-> 0, next |-> 0, state |-> "live"]
                                 ELSE NoNode("unused")]
    /\ head_ = 1
    /\ tail_ = 1
    /\ size_ = 0
    /\ q_pc = [t \in QueueThreads |-> "idle"]
    /\ q_local = [t \in QueueThreads |-> NoLocals]
    /\ pushed = <<>>
    /\ popped = <<>>
    /\ pops = 0

\* the addresses new Node can return: that of a deleted node, or memory not
\* used before (the lowest such address stands for all of it)
Allocatable ==
    {a \in Nodes : q_heap[a].state = "freed"} \cup
    (IF \E a \in Nodes : q_heap[a].state = "unused"
     THEN {MinOf({a \in Nodes : q_heap[a].state = "unused"})} ELSE {})

\* node->next.load() and node->data: a node that was deleted is read through
\* a dangling pointer, and the read gives any value
LoadNext(node) == IF q_heap[node].state = "live" THEN {q_heap[node].next} ELSE {0} \cup Nodes
LoadData(node) == IF q_heap[node].state = "live" THEN {q_heap[node].data} ELSE {0} \cup QueueValues

\* compare_exchange_weak: what it can return when the atomic holds current;
\* it may fail although the values are equal
CompareExchange(current, expected) == IF current = expected THEN {TRUE, FALSE} ELSE {FALSE}

\* push(item) is called: Node* new_node = new Node(item)
QueuePushCall(t) ==
    /\ q_pc[t] = "idle"
    /\ Len(pushed) < MaxPushes
    /\ \E a \in Allocatable :
          /\ q_heap' = [q_heap EXCEPT ![a] = [data |-> Len(pushed) + 1, next |-> 0,
                                              state |-> "live"]]
          /\ q_local' = [q_local EXCEPT ![t] = [NoLocals EXCEPT !.new_node = a]]
    /\ pushed' = Append(pushed, t)
    /\ q_pc' = [q_pc EXCEPT ![t] = "push_tail"]
    /\ UNCHANGED <<head_, tail_, size_, popped, pops>>
    /\ UNCHANGED <<programVars, notQueueVars>>

\* push: expected_tail = tail_.load()
PushLoadTail(t) ==
    /\ q_pc[t] = "push_tail"
    /\ q_local' = [q_local EXCEPT ![t].expected_tail = tail_]
    /\ q_pc' = [q_pc EXCEPT ![t] = "push_next"]
    /\ UNCHANGED <<q_heap, head_, tail_, size_, pushed, popped, pops>>
    /\ UNCHANGED <<programVars, notQueueVars>>

\* push: expected_next = expected_tail->next.load()
PushLoadNext(t) ==
    /\ q_pc[t] = "push_next"
    /\ \E next \in LoadNext(q_local[t].expected_tail) :
          q_local' = [q_local EXCEPT ![t].expected_next = next]
    /\ q_pc' = [q_pc EXCEPT ![t] = "push_check"]
    /\ UNCHANGED <<q_heap, head_, tail_, size_, pushed, popped, pops>>
    /\ UNCHANGED <<programVars, notQueueVars>>

\* push: if (expected_tail == tail_.load()), if (expected_next == nullptr)
PushCheck(t) ==
    /\ q_pc[t] = "push_check"
    /\ q_pc' = [q_pc EXCEPT ![t] = IF q_local[t].expected_tail # tail_ THEN "push_tail"
                                   ELSE IF q_local[t].expected_next = 0 THEN "push_link"
                                   ELSE "push_help"]
    /\ UNCHANGED <<q_heap, head_, tail_, size_, q_local, pushed, popped, pops>>
    /\ UNCHANGED <<programVars, notQueueVars>>

\* push: expected_tail->next.compare_exchange_weak(expected_next, new_node).
\* On a deleted node the exchange works on memory that is no longer a Node:
\* it may report either result.
PushLink(t) ==
    /\ q_pc[t] = "push_link"
    /\ LET node == q_local[t].expected_tail
       IN IF q_heap[node].state = "live"
          THEN \E done \in CompareExchange(q_heap[node].next, q_local[t].expected_next) :
                  /\ q_heap' = IF done
                               THEN [q_heap EXCEPT ![node].next = q_local[t].new_node]
                               ELSE q_heap
                  /\ q_pc' = [q_pc EXCEPT ![t] = IF done THEN "push_swing" ELSE "push_tail"]
          ELSE /\ q_pc' \in {[q_pc EXCEPT ![t] = "push_swing"], [q_pc EXCEPT ![t] = "push_tail"]}
               /\ UNCHANGED q_heap
    /\ UNCHANGED <<head_, tail_, size_, q_local, pushed, popped, pops>>
    /\ UNCHANGED <<programVars, notQueueVars>>

\* push: the tail lags: tail_.compare_exchange_weak(expected_tail, expected_next)
PushHelp(t) ==
    /\ q_pc[t] = "push_help"
    /\ \E done \in CompareExchange(tail_, q_local[t].expected_tail) :
          tail_' = IF done THEN q_local[t].expected_next ELSE tail_
    /\ q_pc' = [q_pc EXCEPT ![t] = "push_tail"]
    /\ UNCHANGED <<q_heap, head_, size_, q_local, pushed, popped, pops>>
    /\ UNCHANGED <<programVars, notQueueVars>>

\* push, after the loop: tail_.compare_exchange_weak(expected_tail, new_node)
PushSwing(t) ==
    /\ q_pc[t] = "push_swing"
    /\ \E done \in CompareExchange(tail_, q_local[t].expected_tail) :
          tail_' = IF done THEN q_local[t].new_node ELSE tail_
    /\ q_pc' = [q_pc EXCEPT ![t] = "push_size"]
    /\ UNCHANGED <<q_heap, head_, size_, q_local, pushed, popped, pops>>
    /\ UNCHANGED <<programVars, notQueueVars>>

\* push: size_.fetch_add(1), and the call returns
PushReturn(t) ==
    /\ q_pc[t] = "push_size"
    /\ size_' = Wrap(size_ + 1)
    /\ q_pc' = [q_pc EXCEPT ![t] = "idle"]
    /\ q_local' = [q_local EXCEPT ![t] = NoLocals]
    /\ UNCHANGED <<q_heap, head_, tail_, pushed, popped, pops>>
    /\ UNCHANGED <<programVars, notQueueVars>>

\* pop(item) is called
QueuePopCall(t) ==
    /\ q_pc[t] = "idle"
    /\ pops < MaxPops
    /\ pops' = pops + 1
    /\ q_local' = [q_local EXCEPT ![t] = [NoLocals EXCEPT !.began = Len(popped)]]
    /\ q_pc' = [q_pc EXCEPT ![t] = "pop_head"]
    /\ UNCHANGED <<q_heap, head_, tail_, size_, pushed, popped>>
    /\ UNCHANGED <<programVars, notQueueVars>>

\* pop: expected_head = head_.load()
PopLoadHead(t) ==
    /\ q_pc[t] = "pop_head"
    /\ q_local' = [q_local EXCEPT ![t].expected_head = head_]
    /\ q_pc' = [q_pc EXCEPT ![t] = "pop_tail"]
    /\ UNCHANGED <<q_heap, head_, tail_, size_, pushed, popped, pops>>
    /\ UNCHANGED <<programVars, notQueueVars>>

\* pop: expected_tail = tail_.load()
PopLoadTail(t) ==
    /\ q_pc[t] = "pop_tail"
    /\ q_local' = [q_local EXCEPT ![t].expected_tail = tail_]
    /\ q_pc' = [q_pc EXCEPT ![t] = "pop_next"]
    /\ UNCHANGED <<q_heap, head_, tail_, size_, pushed, popped, pops>>
    /\ UNCHANGED <<programVars, notQueueVars>>

\* pop: expected_next = expected_head->next.load()
PopLoadNext(t) ==
    /\ q_pc[t] = "pop_next"
    /\ \E next \in LoadNext(q_local[t].expected_head) :
          q_local' = [q_local EXCEPT ![t].expected_next = next]
    /\ q_pc' = [q_pc EXCEPT ![t] = "pop_check"]
    /\ UNCHANGED <<q_heap, head_, tail_, size_, pushed, popped, pops>>
    /\ UNCHANGED <<programVars, notQueueVars>>

\* pop: if (expected_head == head_.load()) and the tests under it; the queue
\* is found empty and the call returns false, or the call goes on
PopCheck(t) ==
    /\ q_pc[t] = "pop_check"
    /\ LET l == q_local[t]
           to == IF l.expected_head # head_ THEN "pop_head"
                 ELSE IF l.expected_head = l.expected_tail
                      THEN IF l.expected_next = 0 THEN "idle" ELSE "pop_help"
                      ELSE IF l.expected_next = 0 THEN "pop_head" ELSE "pop_item"
       IN /\ q_pc' = [q_pc EXCEPT ![t] = to]
          /\ q_local' = IF to = "idle" THEN [q_local EXCEPT ![t] = NoLocals] ELSE q_local
    /\ UNCHANGED <<q_heap, head_, tail_, size_, pushed, popped, pops>>
    /\ UNCHANGED <<programVars, notQueueVars>>

\* pop: the tail lags: tail_.compare_exchange_weak(expected_tail, expected_next)
PopHelp(t) ==
    /\ q_pc[t] = "pop_help"
    /\ \E done \in CompareExchange(tail_, q_local[t].expected_tail) :
          tail_' = IF done THEN q_local[t].expected_next ELSE tail_
    /\ q_pc' = [q_pc EXCEPT ![t] = "pop_head"]
    /\ UNCHANGED <<q_heap, head_, size_, q_local, pushed, popped, pops>>
    /\ UNCHANGED <<programVars, notQueueVars>>

\* pop: item = expected_next->data
PopItem(t) ==
    /\ q_pc[t] = "pop_item"
    /\ \E data \in LoadData(q_local[t].expected_next) :
          q_local' = [q_local EXCEPT ![t].item = data]
    /\ q_pc' = [q_pc EXCEPT ![t] = "pop_swing"]
    /\ UNCHANGED <<q_heap, head_, tail_, size_, pushed, popped, pops>>
    /\ UNCHANGED <<programVars, notQueueVars>>

\* pop: head_.compare_exchange_weak(expected_head, expected_next)
PopSwing(t) ==
    /\ q_pc[t] = "pop_swing"
    /\ \E done \in CompareExchange(head_, q_local[t].expected_head) :
          /\ head_' = IF done THEN q_local[t].expected_next ELSE head_
          /\ q_pc' = [q_pc EXCEPT ![t] = IF done THEN "pop_delete" ELSE "pop_head"]
    /\ UNCHANGED <<q_heap, tail_, size_, q_local, pushed, popped, pops>>
    /\ UNCHANGED <<programVars, notQueueVars>>

\* pop: delete expected_head
PopDelete(t) ==
    /\ q_pc[t] = "pop_delete"
    /\ q_heap' = [q_heap EXCEPT ![q_local[t].expected_head] = NoNode("freed")]
    /\ q_pc' = [q_pc EXCEPT ![t] = "pop_size"]
    /\ UNCHANGED <<head_, tail_, size_, q_local, pushed, popped, pops>>
    /\ UNCHANGED <<programVars, notQueueVars>>

\* pop: size_.fetch_sub(1), and the call returns true with item
PopReturn(t) ==
    /\ q_pc[t] = "pop_size"
    /\ size_' = Wrap(size_ + UintMax)
    /\ popped' = Append(popped, [value |-> q_local[t].item, by |-> t,
                                 began |-> q_local[t].began])
    /\ q_pc' = [q_pc EXCEPT ![t] = "idle"]
    /\ q_local' = [q_local EXCEPT ![t] = NoLocals]
    /\ UNCHANGED <<q_heap, head_, tail_, pushed, pops>>
    /\ UNCHANGED <<programVars, notQueueVars>>

\* ---- MarketDataPublisher and the strategies subscribed to it (the single-file demo) ----
\* PriceHistory::MAX_HISTORY
MAX_HISTORY == 1000

\* One symbol is followed.  A double is an exact fraction <<n, d>> with d > 0.
TRADE == "TRADE"
QUOTE == "QUOTE"
BOOK_UPDATE == "BOOK_UPDATE"
NONE == "NONE"

\* struct MarketDataUpdate
MarketDataUpdate(type, price, quantity) == [type |-> type, price |-> price, quantity |-> quantity]

\* struct TradingSignal
TradingSignal(signal, price, quantity) ==
    [signal |-> signal, target_price |-> price, suggested_quantity |-> quantity]

\* RiskManager(): the limits a strategy's risk manager is constructed with
DemoRiskLimits == [max_position_size |-> 10000, max_daily_loss |-> 5000, max_order_size |-> 1000]

\* the strategies main subscribes: MeanReversionStrategy("MeanRev-1", &engine, 0.015, 25)
\* and MomentumStrategy("Momentum-1", &engine, 0.008, 15, 25.0, 75.0), with
\* the periods scaled down
MeanReversion == [kind |-> "MeanReversion", threshold |-> <<3, 200>>, lookback |-> MeanRevLookback]
Momentum == [kind |-> "Momentum", threshold |-> <<1, 125>>, period |-> MomentumPeriod,
             oversold |-> 25, overbought |-> 75]

\* consumers_ in the order of the subscribe calls
Subscribed == <<MeanReversion, Momentum>>

\* a StrategyEngine after construction
NewStrategy ==
    [is_active_ |-> TRUE, prices |-> <<>>, current_daily_pnl_ |-> 0,
     position |-> [known |-> FALSE, quantity |-> 0, average_price |-> 0],
     signals_generated_ |-> 0, orders_sent_ |-> 0, orders_rejected_ |-> 0,
     updates_processed_ |-> 0, generated |-> 0]

\* MarketDataPublisher md_publisher, the strategies subscribed
NewMarketDataPublisher ==
    /\ md_consumers = [i \in DOMAIN Subscribed |-> NewStrategy]
    /\ total_updates_published_ = 0
    /\ next_strategy_order_id = 1000000
    /\ published = <<>>

\* a - b on uint64_t
UnsignedDiff(a, b) == (a - b) % (UintMax + 1)

AbsOf(x) == IF x < 0 THEN -x ELSE x

\* static_cast<Quantity>(x) of a double that is not negative
Truncate(x) == x[1] \div x[2]

\* PriceHistory::add_price
AddPrice(prices, price) ==
    LET pushed_back == Append(prices, price)
    IN IF Len(pushed_back) > MAX_HISTORY THEN Tail(pushed_back) ELSE pushed_back

\* the sum of the last n entries
RECURSIVE SumLast(_, _)
SumLast(prices, n) ==
    IF n = 0 THEN 0 ELSE prices[Len(prices)] + SumLast(SubSeq(prices, 1, Len(prices) - 1), n - 1)

\* TechnicalIndicators::calculate_sma
CalculateSma(prices, period) ==
    IF Len(prices) < period THEN <<0, 1>> ELSE <<SumLast(prices, period), period>>

\* TechnicalIndicators::calculate_momentum: the difference is taken on uint64_t
CalculateMomentum(prices, period) ==
    IF Len(prices) < period + 1 THEN <<0, 1>>
    ELSE <<UnsignedDiff(prices[Len(prices)], prices[Len(prices) - period]),
           prices[Len(prices) - period]>>

\* calculate_rsi: gains and losses over the last period changes; a change is
\* taken on uint64_t, so it is never negative
RECURSIVE RsiSums(_, _)
RsiSums(prices, n) ==
    IF n = 0 THEN [gains |-> 0, losses |-> 0]
    ELSE LET change == UnsignedDiff(prices[Len(prices)], prices[Len(prices) - 1])
             rest == RsiSums(SubSeq(prices, 1, Len(prices) - 1), n - 1)
         IN IF change > 0 THEN [rest EXCEPT !.gains = @ + change]
            ELSE [rest EXCEPT !.losses = @ + AbsOf(change)]

\* TechnicalIndicators::calculate_rsi
CalculateRsi(prices, period) ==
    IF Len(prices) < period + 1 THEN <<50, 1>>
    ELSE LET s == RsiSums(prices, period)
         IN IF s.losses = 0 THEN <<100, 1>>
            ELSE <<100 * s.gains, s.gains + s.losses>>

\* MeanReversionStrategy::generate_signal
MeanReversionSignal(strategy, prices, update) ==
    IF update.type # TRADE THEN TradingSignal(NONE, 0, 0)
    ELSE LET sma == CalculateSma(prices, strategy.lookback)
         IN IF sma[1] = 0 THEN TradingSignal(NONE, 0, 0)
            ELSE LET price_deviation == Frac(update.price * sma[2] - sma[1], sma[1])
                     magnitude == <<AbsOf(price_deviation[1]), price_deviation[2]>>
                     quantity == Min(100, Truncate(<<magnitude[1] * 500, magnitude[2]>>))
                 IN IF Less(strategy.threshold, price_deviation)
                    THEN TradingSignal(SELL, update.price, quantity)
                    ELSE IF Less(price_deviation, <<-strategy.threshold[1], strategy.threshold[2]>>)
                    THEN TradingSignal(BUY, update.price, quantity)
                    ELSE TradingSignal(HOLD, update.price, 0)

\* MomentumStrategy::generate_signal
MomentumSignal(strategy, prices, update) ==
    IF update.type # QUOTE THEN TradingSignal(NONE, 0, 0)
    ELSE LET momentum == CalculateMomentum(prices, strategy.period)
             rsi == CalculateRsi(prices, DemoRsiPeriod)
             magnitude == <<AbsOf(momentum[1]), momentum[2]>>
             quantity == Min(200, Truncate(<<magnitude[1] * 5000, magnitude[2]>>))
         IN IF Less(strategy.threshold, momentum) /\ Less(rsi, <<strategy.oversold, 1>>)
            THEN TradingSignal(BUY, update.price, quantity)
            ELSE IF /\ Less(momentum, <<-strategy.threshold[1], strategy.threshold[2]>>)
                    /\ Less(<<strategy.overbought, 1>>, rsi)
            THEN TradingSignal(SELL, update.price, quantity)
            ELSE TradingSignal(HOLD, update.price, 0)

\* generate_signal of the strategy subscribed at place i
GenerateSignal(i, prices, update) ==
    IF Subscribed[i].kind = "MeanReversion" THEN MeanReversionSignal(Subscribed[i], prices, update)
    ELSE MomentumSignal(Subscribed[i], prices, update)

\* RiskManager::validate_order (the RiskManager of the single-file demo)
ValidateOrder(consumer, side, quantity) ==
    /\ ~(quantity > DemoRiskLimits.max_order_size)
    /\ ~(consumer.current_daily_pnl_ < -DemoRiskLimits.max_daily_loss)
    /\ consumer.position.known =>
          ~(AbsOf(consumer.position.quantity + (IF side = BUY THEN quantity ELSE -quantity))
            > DemoRiskLimits.max_position_size)

\* RiskManager::update_position
UpdatePosition(position, side, quantity, price) ==
    LET trade_quantity == IF side = BUY THEN quantity ELSE -quantity
        new_quantity == position.quantity + trade_quantity
    IN IF position.quantity = 0
       THEN [known |-> TRUE, quantity |-> trade_quantity, average_price |-> price]
       ELSE [known |-> TRUE, quantity |-> new_quantity,
             average_price |-> IF new_quantity # 0
                               THEN (position.average_price * AbsOf(position.quantity)
                                     + price * quantity) \div AbsOf(new_quantity)
                               ELSE position.average_price]

\* StrategyEngine::execute_signal.  world is [consumers, st, next_id]: the
\* strategies, the matching engine they send to, the id counter they share.
ExecuteSignal(world, i, signal) ==
    LET side == IF signal.signal = BUY THEN BUY ELSE SELL
        counted == [world EXCEPT !.consumers[i].signals_generated_ = @ + 1]
        order == Order(world.next_id, side, signal.target_price, signal.suggested_quantity, LIMIT)
    IN IF ~ValidateOrder(world.consumers[i], side, signal.suggested_quantity)
       THEN [counted EXCEPT !.consumers[i].orders_rejected_ = @ + 1]
       ELSE [counted EXCEPT !.next_id = @ + 1,
                            !.st = RunAddOrder(@, order),
                            !.consumers[i].orders_sent_ = @ + 1,
                            !.consumers[i].position =
                                UpdatePosition(@, side, signal.suggested_quantity,
                                               signal.target_price)]

\* StrategyEngine::on_market_update
OnMarketUpdate(world, i, update) ==
    IF ~world.consumers[i].is_active_ THEN world
    ELSE LET prices == AddPrice(world.consumers[i].prices, update.price)
             signal == GenerateSignal(i, prices, update)
             updated == [world EXCEPT !.consumers[i].prices = prices,
                                      !.consumers[i].generated = @ + 1]
             executed == IF signal.signal # NONE /\ signal.signal # HOLD
                         THEN ExecuteSignal(updated, i, signal) ELSE updated
         IN [executed EXCEPT !.consumers[i].updates_processed_ = @ + 1]

\* StrategyEngine::on_trade and on_quote
OnTrade(world, i, trade) == OnMarketUpdate(world, i, trade)
OnQuote(world, i, quote) == OnMarketUpdate(world, i, quote)

\* publish_update: what is done for one consumer
Dispatch(world, i, update) ==
    LET handled == OnMarketUpdate(world, i, update)
    IN IF update.type = TRADE THEN OnTrade(handled, i, update)
       ELSE IF update.type = QUOTE THEN OnQuote(handled, i, update)
       ELSE handled

\* publish_update: the loop over consumers_, from place i on
RECURSIVE DispatchAll(_, _, _)
DispatchAll(world, i, update) ==
    IF i > Len(Subscribed) THEN world
    ELSE DispatchAll(Dispatch(world, i, update), i + 1, update)

\* MarketDataPublisher::publish_update, called by the publisher thread
PublishUpdate(update) ==
    /\ Len(published) < MaxUpdates
    /\ \E world \in {DispatchAll([consumers |-> md_consumers, st |-> EngineState,
                                  next_id |-> next_strategy_order_id], 1, update)} :
          /\ md_consumers' = world.consumers
          /\ next_strategy_order_id' = world.next_id
          /\ SetEngine(world.st)
    /\ total_updates_published_' = total_updates_published_ + 1
    /\ published' = Append(published, update)
    /\ UNCHANGED <<pc, incoming_order, last_call, next_id, cancels, before, ledger>>
    /\ UNCHANGED <<riskVars, threadVars, pipelineVars, strategyVars, notPublisherVars>>

\* ---- the single-file demo after construction ----
NewDemo ==
    /\ NewReadWriteLock
    /\ NewBarrier(MaxParties)
    /\ NewLockFreeQueue
    /\ NewAdvancedMatchingEngine
    /\ NewMarketDataPublisher

\* ---- specifications ----
\* the matching engine driven by one caller; main.cpp: RiskManager risk
Init ==
    /\ NewMatchingEngine
    /\ NewRiskManager(RiskConfig(0, 0, 0, 0))
    /\ NoCallers
    /\ NewPipeline
    /\ NewStrategyEngine(MainStrategyConfig)
    /\ NewDemo

AddOrder ==
    \E s \in {BUY, SELL}, p \in Prices, q \in Quantities, t \in {LIMIT, MARKET} :
        AddOrderCall(Order(next_id, s, p, q, t))

Cancel == \E id \in Ids : CancelOrder(id)

Next == AddOrder \/ MatchStep \/ AddOrderReturn \/ Cancel

Spec == Init /\ [][Next]_vars

\* the same engine and caller, for the properties of the book between calls
\* and of the quantities of the orders
SpecLedger == Init /\ [][Next]_vars

\* a RiskManager with a fixed configuration driven by one caller
InitRisk ==
    /\ NewMatchingEngine
    /\ \E config \in RiskConfigs : NewRiskManager(config)
    /\ NoCallers
    /\ NewPipeline
    /\ NewStrategyEngine(MainStrategyConfig)
    /\ NewDemo

FilterOrders == \E batch \in Batches : FilterOrdersCall(batch)

NextRisk ==
    \/ FilterOrders
    \/ FilterStep
    \/ FilterOrdersReturn
    \/ ResetDailyVolume
    \/ ResetCounters

SpecRisk == InitRisk /\ [][NextRisk]_vars

\* the matching engine called from several threads
InitThreads ==
    /\ NewMatchingEngine
    /\ NewRiskManager(RiskConfig(0, 0, 0, 0))
    /\ NoCallers
    /\ NewPipeline
    /\ NewStrategyEngine(MainStrategyConfig)
    /\ NewDemo

\* the orders the threads submit
ThreadOrders(id) ==
    {Order(id, s, MaxPrice, q, LIMIT) : s \in {BUY, SELL}, q \in Quantities}

NextThreads ==
    \E t \in Threads :
        \/ \E order \in ThreadOrders(next_id) : ThreadAddOrder(t, order)
        \/ \E order_id \in 1..MaxCalls : ThreadCancelOrder(t, order_id)
        \/ ThreadLock(t)
        \/ ThreadMatchStep(t)
        \/ ThreadAddOrderReturn(t)
        \/ ThreadCancelOrderReturn(t)

SpecThreads == InitThreads /\ [][NextThreads]_vars

\* the pipeline of main.cpp: the feed thread, the workers of the pool and main
InitPipeline ==
    /\ NewMatchingEngine
    /\ \E config \in PipelineConfigs : NewRiskManager(config)
    /\ NoCallers
    /\ NewPipeline
    /\ NewStrategyEngine(MainStrategyConfig)
    /\ NewDemo

\* the steps of the feed thread
Feed ==
    \/ FeedCheck
    \/ FeedCallback
    \/ FeedNotify

\* the steps of main: the shutdown sequence
Main ==
    \/ MarketDataStop
    \/ MarketDataJoin
    \/ ShutdownStop
    \/ ShutdownNotifyAll
    \/ ShutdownJoin

\* the steps a worker takes when it is scheduled: worker_loop and the task
Worker(w) ==
    \/ WorkerLock(w)
    \/ WorkerBlock(w)
    \/ GenerateSignalsReturn(w)
    \/ TaskFilterOrdersReturn(w)
    \/ SubmitOrder(w)
    \/ TaskReturn(w)

\* a wait returns without a notification: this may happen, it need not
Spurious == \E w \in Workers : SpuriousWake(w)

NextPipeline ==
    \/ Feed
    \/ Main
    \/ \E w \in Workers : Worker(w)
    \/ Spurious

SpecPipeline == InitPipeline /\ [][NextPipeline]_vars

\* every thread that can take a step is scheduled in the end; nothing makes a
\* blocked wait return without a notification
SpecPipelineFair ==
    /\ SpecPipeline
    /\ WF_vars(Feed)
    /\ WF_vars(Main)
    /\ \A w \in Workers : WF_vars(Worker(w))

\* a StrategyEngine driven by one caller
InitStrategy ==
    /\ NewMatchingEngine
    /\ NewRiskManager(RiskConfig(0, 0, 0, 0))
    /\ NoCallers
    /\ NewPipeline
    /\ \E config \in StrategyConfigs : NewStrategyEngine(config)
    /\ NewDemo

NextStrategy ==
    \E market_orders \in StrategyBatches : GenerateSignals(market_orders)

SpecStrategy == InitStrategy /\ [][NextStrategy]_vars

\* ======================= properties =======================

\* the orders queued on a side
Resting(side) ==
    UNION {{side.levels_[p].orders_[i] : i \in DOMAIN side.levels_[p].orders_} :
           p \in DOMAIN side.levels_}

\* the ids of the orders queued on a side
RestingIds(side) == {o.order_id : o \in Resting(side)}

\* a step of the matching loop that trades
IsMatchStep == pc = "matching" /\ Len(trade_events_') = Len(trade_events_) + 1
NewTrade == trade_events_'[Len(trade_events_')]

\* the side an order with side s is matched against, before and after the step
OppBefore(s) == IF s = BUY THEN ask_side_ ELSE bid_side_
OppAfter(s) == IF s = BUY THEN ask_side_' ELSE bid_side_'

\* the id of the resting order a trade of the incoming order names
RestingIdOf(trade, incoming) ==
    IF incoming.side = BUY THEN trade.sell_order_id ELSE trade.buy_order_id

\* o has priority over f on the side that is matched against an order of side s:
\* a strictly better price, or the same price and an earlier arrival (a smaller id)
HasPriority(o, f, s) ==
    \/ (s = BUY /\ o.price < f.price)
    \/ (s = SELL /\ o.price > f.price)
    \/ (o.price = f.price /\ o.order_id < f.order_id)

\* C1: price-time priority.  In every match step the trade names one resting
\* order of the opposite side, it is the only resting order the step changes,
\* and no other resting order of that side with remaining quantity has a
\* strictly better price or the same price and an earlier arrival.
C1_PriceTimePriority ==
    [][IsMatchStep =>
        LET s == incoming_order.side
            opp == Resting(OppBefore(s))
        IN \E f \in opp :
              /\ f.order_id = RestingIdOf(NewTrade, incoming_order)
              /\ \A o \in opp \ {f} :
                    /\ o \in Resting(OppAfter(s))
                    /\ o.quantity > 0 => ~HasPriority(o, f, s)
              /\ Resting(OppAfter(s)) \ opp \subseteq
                    {[f EXCEPT !.quantity = q] : q \in 0..f.quantity}
    ]_vars

\* C1 witness: a trade was made in the current call while the opposite side
\* held at least two orders to choose from
C1_Witness ==
    /\ pc = "matching"
    /\ Len(trade_events_) > Len(before.trades)
    /\ LET opp == Resting(IF incoming_order.side = BUY THEN before.ask ELSE before.bid)
       IN Cardinality(opp) >= 2

\* C2: no price level of either side is empty, in any state.
C2_NoEmptyLevel ==
    \A side \in {bid_side_, ask_side_} :
        \A p \in DOMAIN side.levels_ : side.levels_[p].orders_ # <<>>

\* C2 witness: trades were made, a cancel succeeded, and both sides are empty
\* again: the levels of the filled and of the cancelled order are gone
C2_Witness ==
    /\ pc = "idle"
    /\ trade_events_ # <<>>
    /\ last_call.op = "cancel_order" /\ last_call.ret
    /\ DOMAIN bid_side_.levels_ = {} /\ DOMAIN ask_side_.levels_ = {}

\* the order with this id is queued in the level at price p of the side s
RestsAt(id, p, s) ==
    LET side == IF s = BUY THEN bid_side_ ELSE ask_side_
    IN /\ p \in DOMAIN side.levels_
       /\ \E i \in DOMAIN side.levels_[p].orders_ : side.levels_[p].orders_[i].order_id = id

\* C3: when no call is in progress, an id is a key of order_lookup_ iff an order
\* with that id rests in the book, and it is mapped to exactly the price level
\* and side where that order rests.
C3_LookupMatchesBook ==
    pc = "idle" =>
        \A id \in Ids :
            /\ id \in DOMAIN order_lookup_ <=> \E p \in Prices, s \in {BUY, SELL} : RestsAt(id, p, s)
            /\ \A p \in Prices, s \in {BUY, SELL} :
                   RestsAt(id, p, s) => order_lookup_[id] = <<p, s>>

\* C3 witness: an order was filled and left the index while another one rests
C3_Witness ==
    /\ pc = "idle"
    /\ trade_events_ # <<>>
    /\ \E id \in DOMAIN order_lookup_ :
          \E t \in 1..Len(trade_events_) :
             LET other == {trade_events_[t].buy_order_id, trade_events_[t].sell_order_id} \ {id}
             IN other # {} /\ other \cap DOMAIN order_lookup_ = {}

\* C4: every trade carries the price of the resting order it was matched
\* against, whether the incoming order is a Limit or a Market order.
C4_TradeAtRestingPrice ==
    [][IsMatchStep =>
        \E f \in Resting(OppBefore(incoming_order.side)) :
            /\ f.order_id = RestingIdOf(NewTrade, incoming_order)
            /\ NewTrade.price = f.price
    ]_vars

\* C4 witness: a Market order traded and returned, and now a Limit order has
\* traded at a price that is not its own
C4_Witness ==
    /\ pc = "matching"
    /\ last_call.op = "add_order" /\ last_call.type = MARKET
    /\ Len(before.trades) = 1
    /\ last_call.order_id \in {before.trades[1].buy_order_id, before.trades[1].sell_order_id}
    /\ incoming_order.type = LIMIT
    /\ Len(trade_events_) = 2
    /\ trade_events_[2].price # incoming_order.price

\* C5: every trade's quantity is positive and is the minimum of the two
\* remaining quantities as they were before the match step, and both remaining
\* quantities go down by exactly that quantity.
C5_TradeQuantity ==
    [][IsMatchStep =>
        \E f \in Resting(OppBefore(incoming_order.side)) :
            /\ f.order_id = RestingIdOf(NewTrade, incoming_order)
            /\ NewTrade.quantity > 0
            /\ NewTrade.quantity = Min(incoming_order.quantity, f.quantity)
            /\ incoming_order'.quantity = incoming_order.quantity - NewTrade.quantity
            /\ LET left == {o \in Resting(OppAfter(incoming_order.side)) : o.order_id = f.order_id}
               IN IF f.quantity - NewTrade.quantity > 0
                  THEN left = {[f EXCEPT !.quantity = f.quantity - NewTrade.quantity]}
                  ELSE f.quantity - NewTrade.quantity = 0 /\ left = {}
    ]_vars

\* C5 witness: a resting order was filled in part (the incoming order had the
\* smaller remaining quantity) and stays queued with what is left
C5_Witness ==
    /\ pc = "matching"
    /\ Len(trade_events_) = Len(before.trades) + 1
    /\ incoming_order.quantity = 0
    /\ LET t == trade_events_[Len(trade_events_)]
           id == RestingIdOf(t, incoming_order)
           was == {o \in Resting(before.bid) \cup Resting(before.ask) : o.order_id = id}
           is == {o \in Resting(bid_side_) \cup Resting(ask_side_) : o.order_id = id}
       IN \E o \in was : is = {[o EXCEPT !.quantity = o.quantity - t.quantity]}

\* add_order returns
IsReturnStep == pc = "matching" /\ pc' = "idle"

\* the side an order with side s rests on, after the step
OwnAfter(s) == IF s = BUY THEN bid_side_' ELSE ask_side_'

\* the prices at which orders rest on a side
RestingPrices(side) == {o.price : o \in Resting(side)}

\* C6: when add_order of a Limit order returns, either the order is fully
\* filled (remaining quantity 0, not in the book, not in the index) or it rests
\* (remaining quantity > 0, last in the level at its price on its own side, in
\* the index, and the opposite side is empty or does not cross its limit).
C6_LimitFilledOrResting ==
    [][(IsReturnStep /\ incoming_order.type = LIMIT) =>
        LET o == incoming_order
            own == OwnAfter(o.side)
            opp == OppAfter(o.side)
            FullyFilled ==
                /\ o.quantity = 0
                /\ o.order_id \notin RestingIds(bid_side_') \cup RestingIds(ask_side_')
                /\ o.order_id \notin DOMAIN order_lookup_'
            Rests ==
                /\ o.quantity > 0
                /\ o.price \in DOMAIN own.levels_
                /\ own.levels_[o.price].orders_ # <<>>
                /\ own.levels_[o.price].orders_[Len(own.levels_[o.price].orders_)] = o
                /\ o.order_id \notin RestingIds(opp)
                /\ Cardinality({x \in Resting(own) : x.order_id = o.order_id}) = 1
                /\ o.order_id \in DOMAIN order_lookup_'
                /\ \A p \in RestingPrices(opp) :
                      IF o.side = BUY THEN o.price < p ELSE o.price > p
        IN (FullyFilled /\ ~Rests) \/ (Rests /\ ~FullyFilled)
    ]_vars

\* C6 witness: a Limit order has traded, returned with a remainder and rests
C6_Witness ==
    /\ pc = "idle"
    /\ last_call.op = "add_order" /\ last_call.type = LIMIT /\ last_call.left > 0
    /\ Len(trade_events_) > Len(before.trades)
    /\ last_call.order_id \in DOMAIN order_lookup_

\* C7: a Market order is never rested.  While add_order works on a Market
\* order its own side of the book does not change, and when it returns the
\* order is in neither side nor in the index and either nothing is left of it
\* or the opposite side is empty.
C7_MarketNeverRests ==
    [][(pc = "matching" /\ incoming_order.type = MARKET) =>
        LET o == incoming_order IN
        /\ OwnAfter(o.side) = (IF o.side = BUY THEN bid_side_ ELSE ask_side_)
        /\ IsReturnStep =>
              /\ o.order_id \notin RestingIds(bid_side_') \cup RestingIds(ask_side_')
              /\ o.order_id \notin DOMAIN order_lookup_'
              /\ o.quantity = 0 \/ Resting(OppAfter(o.side)) = {}
    ]_vars

\* C7 witness: a Market order traded, emptied the opposite side and returned
\* with a remainder, which is dropped
C7_Witness ==
    /\ pc = "idle"
    /\ last_call.op = "add_order" /\ last_call.type = MARKET /\ last_call.left > 0
    /\ Len(trade_events_) > Len(before.trades)
    /\ last_call.order_id \notin DOMAIN order_lookup_
    /\ last_call.order_id \notin RestingIds(bid_side_) \cup RestingIds(ask_side_)

\* cancel_order is called and returns
IsCancelStep == pc = "idle" /\ cancels' = cancels + 1

\* a queue without the orders of one id
Without(orders, id) == SelectSeq(orders, LAMBDA o : o.order_id # id)

\* the side after the step is the side before it with the orders of this id
\* taken out of their queues and the levels this empties dropped
TakenOut(side_before, side_after, id) ==
    /\ DOMAIN side_after.levels_ =
          {p \in DOMAIN side_before.levels_ : Without(side_before.levels_[p].orders_, id) # <<>>}
    /\ \A p \in DOMAIN side_after.levels_ :
          side_after.levels_[p].orders_ = Without(side_before.levels_[p].orders_, id)

\* C8: cancel_order(id) returns true iff an order with that id rests when the
\* call takes the lock, and then takes exactly that order out of the book and
\* the index; when it returns false the sides, the index, the trade log and
\* the counters are unchanged.
C8_CancelResult ==
    [][IsCancelStep =>
        LET id == last_call'.order_id
            hit == {o \in Resting(bid_side_) \cup Resting(ask_side_) : o.order_id = id}
        IN /\ last_call'.op = "cancel_order"
           /\ last_call'.ret <=> hit # {}
           /\ last_call'.ret =>
                 /\ Cardinality(hit) = 1
                 /\ TakenOut(bid_side_, bid_side_', id)
                 /\ TakenOut(ask_side_, ask_side_', id)
                 /\ DOMAIN order_lookup_' = DOMAIN order_lookup_ \ {id}
                 /\ \A x \in DOMAIN order_lookup_' : order_lookup_'[x] = order_lookup_[x]
                 /\ UNCHANGED <<trade_events_, processed_orders_, matched_trades_>>
           /\ ~last_call'.ret =>
                 UNCHANGED <<bid_side_, ask_side_, order_lookup_, trade_events_,
                             processed_orders_, matched_trades_>>
    ]_vars

\* C8 witness: a cancel returned true for an order that was not at the front of
\* its level, and the order that was in front of it still rests
C8_Witness ==
    /\ pc = "idle"
    /\ last_call.op = "cancel_order" /\ last_call.ret
    /\ LET o == last_call.removed
           side == IF o.side = BUY THEN bid_side_ ELSE ask_side_
       IN /\ o.price \in DOMAIN side.levels_
          /\ \E x \in Resting(side) : x.price = o.price /\ x.order_id < o.order_id

\* the queues of a side, level by level
Queues(side) == [p \in DOMAIN side.levels_ |-> side.levels_[p].orders_]

\* C9: add_order of a Limit order that does not cross the opposite side,
\* followed at once by cancel_order of its id, returns true and leaves the
\* levels and queues of both sides, the index and the trade log as they were
\* before the add.
C9_AddCancelRoundTrip ==
    [][(/\ IsCancelStep
        /\ last_call.op = "add_order" /\ last_call.type = LIMIT
        /\ last_call'.order_id = last_call.order_id
        /\ \E o \in Resting(bid_side_) \cup Resting(ask_side_) :
              /\ o.order_id = last_call.order_id
              /\ \A p \in RestingPrices(IF o.side = BUY THEN before.ask ELSE before.bid) :
                    IF o.side = BUY THEN o.price < p ELSE o.price > p)
       =>
       /\ last_call'.ret
       /\ Queues(bid_side_') = Queues(before.bid)
       /\ Queues(ask_side_') = Queues(before.ask)
       /\ order_lookup_' = before.lookup
       /\ trade_events_' = before.trades
    ]_vars

\* C9 witness: the order added last went to the back of a level that held
\* other orders, did not trade, and has been cancelled
C9_Witness ==
    /\ pc = "idle"
    /\ last_call.op = "cancel_order" /\ last_call.ret
    /\ last_call.order_id = next_id - 1
    /\ trade_events_ = before.trades
    /\ LET o == last_call.removed
           was == IF o.side = BUY THEN before.bid ELSE before.ask
           opp == IF o.side = BUY THEN before.ask ELSE before.bid
       IN /\ o.price \in DOMAIN was.levels_
          /\ Len(was.levels_[o.price].orders_) >= 1
          /\ Resting(opp) # {}
    /\ Queues(bid_side_) = Queues(before.bid)
    /\ Queues(ask_side_) = Queues(before.ask)

\* the sum of the remaining quantities of the orders of a queue
RECURSIVE SumQuantity(_)
SumQuantity(orders) ==
    IF orders = <<>> THEN 0 ELSE Head(orders).quantity + SumQuantity(Tail(orders))

\* C10: when no call is in progress, the cached total_quantity_ of every level
\* is the sum of the remaining quantities of the orders queued at it.
C10_CachedTotal ==
    pc = "idle" =>
        \A side \in {bid_side_, ask_side_} :
            \A p \in DOMAIN side.levels_ :
                side.levels_[p].total_quantity_ = SumQuantity(side.levels_[p].orders_)

\* the resting orders a step changes or takes out of the side matched against
\* an order of side s
Changed(s) == Resting(OppBefore(s)) \ Resting(OppAfter(s))

\* C11: in every trade, buy_order_id is the id of the order with side BUY and
\* sell_order_id the id of the order with side SELL, whichever of the two was
\* incoming; the incoming order and the resting order it is matched against
\* have opposite sides.
C11_TradeSides ==
    [][IsMatchStep =>
        /\ Changed(incoming_order.side) # {}
        /\ \A f \in Changed(incoming_order.side) :
              /\ {incoming_order.side, f.side} = {BUY, SELL}
              /\ \E b, s \in {incoming_order, f} :
                    /\ b.side = BUY /\ s.side = SELL
                    /\ NewTrade.buy_order_id = b.order_id
                    /\ NewTrade.sell_order_id = s.order_id
    ]_vars

\* C11 witness: an earlier call traded as the incoming buyer, and now an
\* incoming sell order has traded against a resting buy order
C11_Witness ==
    /\ pc = "matching"
    /\ incoming_order.side = SELL
    /\ Len(before.trades) >= 1
    /\ before.trades[1].buy_order_id > before.trades[1].sell_order_id
    /\ Len(trade_events_) > Len(before.trades)
    /\ trade_events_[Len(trade_events_)].sell_order_id = incoming_order.order_id
    /\ trade_events_[Len(trade_events_)].buy_order_id < incoming_order.order_id

\* C12: get_best_bid_ask returns the highest price among the resting buy
\* orders (0 when there is none) and the lowest price among the resting sell
\* orders (0 when there is none), in every state.
C12_BestBidAsk ==
    LET bids == RestingPrices(bid_side_)
        asks == RestingPrices(ask_side_)
    IN /\ IF bids = {} THEN GetBestBidAsk[1] = 0
          ELSE GetBestBidAsk[1] \in bids /\ \A p \in bids : p <= GetBestBidAsk[1]
       /\ IF asks = {} THEN GetBestBidAsk[2] = 0
          ELSE GetBestBidAsk[2] \in asks /\ \A p \in asks : GetBestBidAsk[2] <= p

\* C12 witness: buy orders rest at two prices and no sell order rests, after
\* the sell side had been traded empty
C12_Witness ==
    /\ pc = "idle"
    /\ trade_events_ # <<>>
    /\ Cardinality(RestingPrices(bid_side_)) >= 2
    /\ RestingPrices(ask_side_) = {}

\* an iteration of the loop of filter_orders, and whether it admits the order
IsFilterStep == risk_pc = "filtering" /\ remaining # <<>> /\ remaining' = Tail(remaining)
AdmitsOrder == out' = Append(out, Head(remaining))
RejectsOrder == out' = out /\ orders_rejected_' = orders_rejected_ + 1

\* C19: with max_daily_volume fixed at C > 0, daily_volume_ never exceeds C
\* after any sequence of filter_orders and reset calls of one caller, and an
\* order whose quantity would take daily_volume_ above C is rejected and leaves
\* daily_volume_ unchanged.
C19_DailyVolumeCap ==
    [][config_.max_daily_volume > 0 =>
        /\ daily_volume_' <= config_.max_daily_volume
        /\ (IsFilterStep
            /\ daily_volume_ + Head(remaining).quantity > config_.max_daily_volume)
           => (RejectsOrder /\ daily_volume_' = daily_volume_)
    ]_vars

\* C20: with max_notional_per_order = N > 0, filter_orders never admits an
\* order whose notional, the exact product of its price and its quantity,
\* exceeds N.
C20_NotionalCap ==
    [][(/\ IsFilterStep
        /\ config_.max_notional_per_order > 0
        /\ Head(remaining).price * Head(remaining).quantity > config_.max_notional_per_order)
       => ~AdmitsOrder
    ]_vars

\* C13: calls of add_order and cancel_order made by several threads leave the
\* book, the index and the trade log as the same calls leave them when run one
\* after the other in the order in which they took engine_mutex_, and the
\* trades of one add_order call are contiguous in the trade log.
C13_Linearised ==
    /\ engine_mutex_ = 0 =>
          LET st == RunCalls(NewEngineState, acquired)
          IN /\ bid_side_ = st.bid
             /\ ask_side_ = st.ask
             /\ order_lookup_ = st.lookup
             /\ trade_events_ = st.trades
    /\ Len(trade_owner) = Len(trade_events_)
    /\ \A i, j, k \in DOMAIN trade_owner :
          (i < j /\ j < k /\ trade_owner[i] = trade_owner[k]) => trade_owner[j] = trade_owner[i]

\* C13 witness: a call that began later took the lock first while the earlier
\* one was blocked on it, one call made two trades, and every call has returned
C13_Witness ==
    /\ engine_mutex_ = 0
    /\ \A t \in Threads : thread_pc[t] = "idle"
    /\ Len(acquired) = MaxCalls
    /\ \E i, j \in DOMAIN acquired :
          /\ i < j
          /\ acquired[i].op = "add_order" /\ acquired[j].op = "add_order"
          /\ acquired[i].order_id > acquired[j].order_id
    /\ \E i, j \in DOMAIN trade_owner : i < j /\ trade_owner[i] = trade_owner[j]

\* the add_order calls that have begun
AddOrderCallsBegun ==
    Cardinality({i \in DOMAIN acquired : acquired[i].op = "add_order"})
    + Cardinality({t \in Threads : thread_pc[t] = "lock" /\ thread_call[t].op = "add_order"})

\* a step in which an add_order call returns
IsThreadReturnStep ==
    \E t \in Threads : thread_pc[t] = "matching" /\ thread_pc'[t] = "idle"

\* C14: with add_order called from several threads, processed_orders_ never
\* decreases, every add_order call increments it exactly once (when it
\* returns), and when no call is in progress it equals the number of
\* add_order calls made.
C14_ProcessedOrders ==
    [][/\ processed_orders_' >= processed_orders_
       /\ IF IsThreadReturnStep THEN processed_orders_' = processed_orders_ + 1
          ELSE processed_orders_' = processed_orders_
       /\ (\A t \in Threads : thread_pc'[t] = "idle") => processed_orders_' = AddOrderCallsBegun'
    ]_vars

\* C14 witness: two add_order calls were in progress at once, one holding the
\* lock and one blocked on it, and now every call has returned
C14_Witness ==
    /\ \A t \in Threads : thread_pc[t] = "idle"
    /\ processed_orders_ >= 2
    /\ \E i, j \in DOMAIN acquired :
          /\ i < j
          /\ acquired[i].op = "add_order" /\ acquired[j].op = "add_order"
          /\ acquired[i].order_id > acquired[j].order_id

\* the workers inside a call on the shared strategy or the shared risk manager
InGenerateSignals == {w \in Workers : workers_[w].pc = "generating"}
InFilterOrders == {w \in Workers : workers_[w].pc = "filtering"}

\* C15: in the pipeline of main.cpp the shared strategy has a single writer:
\* at no time are two workers of the pool inside generate_signals, nor two
\* inside filter_orders of the shared risk manager.
C15_SingleWriter ==
    /\ Cardinality(InGenerateSignals) <= 1
    /\ Cardinality(InFilterOrders) <= 1

\* the elements of a sequence
Range(seq) == {seq[i] : i \in DOMAIN seq}

\* the orders a step passes to engine.add_order
NewlySubmitted == submitted' \ submitted

\* C16: within every task the steps run in the order generate_signals,
\* filter_orders, add_order; an order is passed to add_order only by a task
\* whose generate_signals returned it and whose filter_orders admitted it, and
\* an order the risk filter rejects never reaches the engine.
C16_TaskOrder ==
    [][/\ \A w \in Workers :
             /\ workers_'[w].pc = "filtering" => workers_[w].pc \in {"generating", "filtering"}
             /\ workers_'[w].pc = "submitting" => workers_[w].pc \in {"filtering", "submitting"}
       /\ processed_orders_' # processed_orders_ => NewlySubmitted # {}
       /\ \A s \in NewlySubmitted :
             /\ \E w \in Workers :
                   /\ workers_[w].pc = "submitting"
                   /\ workers_[w].task = s.task
                   /\ s.order \in Range(workers_[w].signals)
                   /\ s.order \in Range(workers_[w].filtered)
             /\ ~Rejects(s.order, daily_volume_, <<>>)
    ]_vars

\* C16 witness: with a quantity limit set, one task had its order rejected and
\* another task's order has reached the engine
C16_Witness ==
    /\ config_.max_order_quantity # 0
    /\ orders_rejected_ > 0
    /\ submitted # {}
    /\ processed_orders_ = Cardinality(submitted)
    /\ \A w \in Workers : workers_[w].pc \notin {"generating", "filtering", "submitting"}

\* shutdown() has set stop_ and called notify_all
Notified == main_pc \in {"join_pool", "done"}

\* C17: after shutdown() is called every task enqueued before it runs exactly
\* once, all workers exit and shutdown() returns; no worker stays blocked on
\* the condition variable for ever: the stop notification is not missed by a
\* worker that has evaluated the wait predicate and has not blocked yet.
C17_ShutdownCompletes ==
    /\ [](main_pc = "done" =>
             /\ \A b \in 1..emitted : runs[b] = 1
             /\ \A w \in Workers : workers_[w].pc = "exited")
    /\ (main_pc = "notify") ~> (main_pc = "done")
    /\ \A w \in Workers :
          (Notified /\ workers_[w].pc \in {"blocking", "waiting"})
             ~> (workers_[w].pc \notin {"blocking", "waiting"})

\* a step in which the feed hands a batch to the callback, which enqueues a task
IsCallbackStep == emitted' = emitted + 1

\* C18: MarketData::stop() returns only after the feed thread has left
\* feed_loop; no callback begins after stop() has returned; at most one batch
\* is emitted after running_ is cleared; in the shutdown sequence of main.cpp
\* no task is enqueued after shutdown() has started.
C18_FeedStop ==
    [][/\ main_pc' \notin {"running", "join_feed"} => feed_pc' = "exited"
       /\ IsCallbackStep => main_pc \in {"running", "join_feed"}
       /\ late_batches' <= 1
       /\ Len(tasks_') > Len(tasks_) => main_pc \in {"running", "join_feed", "shutdown"}
    ]_vars

\* C18 witness: a batch was emitted after running_ had been cleared, stop()
\* and shutdown() have returned
C18_Witness ==
    /\ main_pc = "done"
    /\ late_batches = 1
    /\ emitted = MaxBatches
    /\ feed_pc = "exited"

\* a step in which filter_orders returns
IsFilterReturnStep == risk_pc = "filtering" /\ risk_pc' = "idle"

\* sub is a subsequence of seq: its elements are elements of seq, at strictly
\* increasing places
IsSubsequence(sub, seq) ==
    \E f \in [DOMAIN sub -> DOMAIN seq] :
        /\ \A i \in DOMAIN sub : sub[i] = seq[f[i]]
        /\ \A i, j \in DOMAIN sub : i < j => f[i] < f[j]

C22_VolumeIsSumAdmitted ==
    risk_pc = "idle" => daily_volume_ = admitted_volume

\* ---- the strategy ----
\* the orders the step's generate_signals call returns
Emitted == strategy_call'.strategy_orders

\* the step's call returns an order of the side
Emits(side) == Emitted # <<>> /\ Emitted[1].side = side

\* C23: every generate_signals call can be made and returns; it returns at most
\* one order, and while the history after the batch has fewer than long_period
\* points it returns none and leaves in_position and entry_price as they were.
C23_AtMostOneOrder ==
    [][/\ Len(Emitted) <= 1
       /\ Len(price_history') < strategy_config.long_period =>
            /\ Emitted = <<>>
            /\ UNCHANGED <<in_position, entry_price>>
    ]_vars

\* C23 witness: a call has appended Market prices to a history that is still
\* one point short of long_period, and has returned nothing
C23_Witness ==
    /\ Len(price_history) = strategy_config.long_period - 1
    /\ strategy_call.points < Len(price_history)
    /\ strategy_call.strategy_orders = <<>>
    /\ ~in_position

\* C24: every order generate_signals returns is a Market order for
\* position_size units at the last price of the history, in the units of the
\* prices handed in.
C24_OrderFields ==
    [][\A i \in DOMAIN Emitted :
        /\ Emitted[i].type = MARKET
        /\ Same(Whole(Emitted[i].quantity), strategy_config.position_size)
        /\ Emitted[i].price = price_history'[Len(price_history')]
    ]_vars

\* the four conditions of a Buy on the history
BuyRule(history, config) ==
    LET prices == history
        lines == macd(prices, MacdPeriods(config).fast, MacdPeriods(config).slow,
                      MacdPeriods(config).signal)
    IN /\ ScoreAbove(momentum_score(prices, config.short_period, config.long_period),
                     config.momentum_threshold)
       /\ Less(relative_strength_index(prices, config.rsi_period), config.rsi_overbought)
       /\ Less(lines[2], lines[1])
       /\ Less(simple_moving_average(prices, config.short_period),
               Whole(history[Len(history)]))

\* C25: out of position and with long_period points or more, generate_signals
\* returns a Buy exactly when momentum score > momentum_threshold, RSI <
\* rsi_overbought, MACD line > signal line and last price > short SMA all hold;
\* otherwise it returns nothing and stays out of position.
C25_BuyRule ==
    [][(~in_position /\ Len(price_history') >= strategy_config.long_period) =>
        LET buy == BuyRule(price_history', strategy_config)
        IN /\ Emits(BUY) <=> buy
           /\ ~buy => Emitted = <<>> /\ ~in_position'
    ]_vars

\* C25 witness: the last call returned a Buy
C25_Witness ==
    /\ strategy_call.signal.type = BUY
    /\ strategy_call.strategy_orders # <<>>
    /\ in_position

\* at least one of the soft-exit conditions on the history
SoftExit(history, config) ==
    LET prices == history
        lines == macd(prices, MacdPeriods(config).fast, MacdPeriods(config).slow,
                      MacdPeriods(config).signal)
    IN \/ ScoreNegative(momentum_score(prices, config.short_period, config.long_period))
       \/ Less(config.rsi_overbought, relative_strength_index(prices, config.rsi_period))
       \/ Less(lines[1], lines[2])
       \/ Less(Whole(history[Len(history)]),
               simple_moving_average(prices, config.short_period))

\* pnl_pct <= -stop_loss_pct
StopLoss(p, e, config) == ~Less(Minus(Whole(0), config.stop_loss_pct), PnlPct(p, e))

\* pnl_pct >= take_profit_pct
TakeProfit(p, e, config) == ~Less(PnlPct(p, e), config.take_profit_pct)

\* C26: in position with entry price e and last price p, generate_signals
\* returns a Sell exactly when pnl_pct <= -stop_loss_pct, or pnl_pct >=
\* take_profit_pct, or a soft-exit condition holds; the first two whatever the
\* indicators, with a reason that begins "Stop Loss triggered" and "Take
\* Profit triggered"; otherwise it returns nothing.
C26_SellRule ==
    [][in_position =>
        LET p == Whole(price_history'[Len(price_history')])
            stop == StopLoss(p, entry_price, strategy_config)
            take == TakeProfit(p, entry_price, strategy_config)
            soft == SoftExit(price_history', strategy_config)
        IN /\ Emits(SELL) <=> (stop \/ take \/ soft)
           /\ stop => strategy_call'.signal.reason = "Stop Loss triggered"
           /\ (take /\ ~stop) => strategy_call'.signal.reason = "Take Profit triggered"
           /\ ~(stop \/ take \/ soft) => Emitted = <<>>
    ]_vars

\* C26 witness: the last call left the position on a soft-exit condition
C26_Witness ==
    /\ strategy_call.signal.type = SELL
    /\ strategy_call.signal.reason = "Momentum"
    /\ strategy_call.strategy_orders # <<>>

\* C27: a Buy is returned only out of position and enters it at the price of
\* the signal, a Sell only in position and leaves it; the orders returned
\* alternate Buy, Sell, Buy, ..., the first being a Buy.
C27_Alternation ==
    [][/\ Emits(BUY) =>
            /\ ~in_position /\ in_position'
            /\ entry_price' = strategy_call'.signal.price
            /\ last_side \in {"NONE", SELL}
       /\ Emits(SELL) =>
            /\ in_position /\ ~in_position'
            /\ last_side = BUY
    ]_vars

\* C27 witness: the position is entered for the second time
C27_Witness ==
    /\ strategy_call.signal.type = BUY
    /\ in_position
    /\ strategy_call.points > strategy_config.long_period

\* the last n elements of a sequence
LastN(seq, n) == IF Len(seq) <= n THEN seq ELSE SubSeq(seq, Len(seq) - n + 1, Len(seq))

\* the Market-type orders of a batch
MarketInputs(orders) == SelectSeq(orders, LAMBDA order : order.type = MARKET)

\* C28: price_history and volume_history have one length, at most the cap, and
\* hold the prices and the quantities of the most recent Market-type inputs in
\* arrival order; Limit-type inputs change neither.
C28_Histories ==
    [][LET inputs == MarketInputs(strategy_call'.market_orders)
       IN /\ price_history' =
                LastN(price_history \o [i \in DOMAIN inputs |-> inputs[i].price], MaxHistory)
          /\ volume_history' =
                LastN(volume_history \o [i \in DOMAIN inputs |-> inputs[i].quantity],
                      MaxHistory)
          /\ Len(price_history') = Len(volume_history')
          /\ Len(price_history') <= MaxHistory
    ]_vars

\* C28 witness: the last call evicted the oldest point, its batch holding a
\* Limit order too
C28_Witness ==
    /\ strategy_call.points + Len(MarketInputs(strategy_call.market_orders)) > MaxHistory
    /\ Len(MarketInputs(strategy_call.market_orders)) < Len(strategy_call.market_orders)
    /\ Len(price_history) = MaxHistory

\* C29: after generate_signals has returned a Buy or a Sell, the last-signal
\* record holds its kind and its reason, and for a Sell the realised pnl%.
C29_LastSignal ==
    strategy_call.strategy_orders # <<>> =>
        /\ last_signal_type_ = strategy_call.signal.type
        /\ last_signal_reason_ = strategy_call.signal.reason
        /\ strategy_call.signal.type = SELL =>
                Same(last_signal_pnl_pct_, strategy_call.pnl)

\* ---- the batch of a task ----
\* worker w's task reads market_orders: generate_signals runs to its end
ReadsBatch(w) == workers_[w].pc = "generating" /\ workers_'[w].pc = "filtering"

\* C30: whenever a task reads its batch, the batch handed to the callback
\* invocation that enqueued the task is still alive, also when the task starts
\* after the callback has returned and the feed has gone on to its next batch
\* or has stopped.
C30_BatchAlive ==
    [][\A w \in Workers : ReadsBatch(w) => BatchAlive(workers_[w].task)]_vars


\* the ReadWriteLock with the threads of its test in main
InitRWLock ==
    /\ NewMatchingEngine
    /\ NewRiskManager(RiskConfig(0, 0, 0, 0))
    /\ NoCallers
    /\ NewPipeline
    /\ NewStrategyEngine(MainStrategyConfig)
    /\ NewDemo

\* the steps of a reader thread: read_lock, the read, read_unlock
LockReader(t) ==
    \/ ReadLockCall(t)
    \/ ReadLockSpin(t)
    \/ ReadLockAdd(t)
    \/ ReadLockCheck(t)
    \/ ReadLockSub(t)
    \/ ReadUnlock(t)

\* the steps of a writer thread: write_lock, the write, write_unlock
LockWriter(t) ==
    \/ WriterLockCall(t)
    \/ WriteLockMutex(t)
    \/ WriteLockCheck(t)
    \/ WriteLockBlock(t)
    \/ WriteLockSet(t)
    \/ WriteLockDrain(t)
    \/ WriterUnlockCall(t)
    \/ WriteUnlockStore(t)
    \/ WriteUnlockNotify(t)

LockSpurious == \E t \in LockWriters : WriteLockSpuriousWake(t)

NextRWLock ==
    \/ \E t \in LockReaders : LockReader(t)
    \/ \E t \in LockWriters : LockWriter(t)
    \/ LockSpurious

SpecRWLock == InitRWLock /\ [][NextRWLock]_vars

\* every thread that can take a step is scheduled in the end; nothing makes a
\* blocked wait return without a notification
SpecRWLockFair ==
    /\ SpecRWLock
    /\ \A t \in LockReaders : WF_vars(LockReader(t))
    /\ \A t \in LockWriters : WF_vars(LockWriter(t))

\* the Barrier with the threads of its test in main
InitBarrier ==
    /\ NewMatchingEngine
    /\ NewRiskManager(RiskConfig(0, 0, 0, 0))
    /\ NoCallers
    /\ NewPipeline
    /\ NewStrategyEngine(MainStrategyConfig)
    /\ NewDemo

\* the steps of a thread of the test: wait() for each phase
BarrierThread(t) ==
    \/ BarrierWaitCall(t)
    \/ BarrierEnter(t)
    \/ BarrierWake(t)

BarrierSpurious == \E t \in BarrierThreads : BarrierSpuriousWake(t)

NextBarrier ==
    \/ \E t \in BarrierThreads : BarrierThread(t)
    \/ BarrierSpurious

SpecBarrier == InitBarrier /\ [][NextBarrier]_vars

\* every thread that can take a step is scheduled in the end; nothing makes a
\* blocked wait return without a notification
SpecBarrierFair ==
    /\ SpecBarrier
    /\ \A t \in BarrierThreads : WF_vars(BarrierThread(t))

\* the AdvancedMatchingEngine called from several threads
InitAdvanced ==
    /\ NewMatchingEngine
    /\ NewRiskManager(RiskConfig(0, 0, 0, 0))
    /\ NoCallers
    /\ NewPipeline
    /\ NewStrategyEngine(MainStrategyConfig)
    /\ NewDemo

\* the orders the threads submit
AdvancedOrders(id) ==
    {Order(id, s, MaxPrice, q, LIMIT) : s \in {BUY, SELL}, q \in Quantities}

\* the steps of a thread inside order_book_lock_
AdvWriteLock(t) ==
    \/ WriteLockMutex(t)
    \/ WriteLockCheck(t)
    \/ WriteLockBlock(t)
    \/ WriteLockSet(t)
    \/ WriteLockDrain(t)
    \/ WriteUnlockStore(t)
    \/ WriteUnlockNotify(t)

\* the steps of a thread in add_order and cancel_order
AdvThread(t) ==
    \/ \E order \in AdvancedOrders(next_id) : AdvAddOrderCall(t, order)
    \/ AdvMatchStep(t)
    \/ AdvEraseLookup(t)
    \/ AdvProcessed(t)
    \/ AdvRestLookup(t)
    \/ AdvAddOrderReturn(t)
    \/ \E order_id \in 1..MaxAdvCalls : AdvCancelOrderCall(t, order_id)
    \/ AdvCancelFind(t)
    \/ AdvCancelRemove(t)
    \/ AdvCancelOrderReturn(t)

NextAdvanced ==
    \/ \E t \in Threads : AdvThread(t)
    \/ \E t \in Threads : AdvWriteLock(t)
    \/ \E t \in Threads : WriteLockSpuriousWake(t)

SpecAdvanced == InitAdvanced /\ [][NextAdvanced]_vars

\* the MarketDataPublisher with the strategies of main subscribed
InitPublisher ==
    /\ NewMatchingEngine
    /\ NewRiskManager(RiskConfig(0, 0, 0, 0))
    /\ NoCallers
    /\ NewPipeline
    /\ NewStrategyEngine(MainStrategyConfig)
    /\ NewDemo

\* the updates the feeds generate
Updates ==
    {MarketDataUpdate(type, price, 1) : type \in {TRADE, QUOTE, BOOK_UPDATE},
                                        price \in 1..MaxUpdatePrice}

NextPublisher == \E update \in Updates : PublishUpdate(update)

SpecPublisher == InitPublisher /\ [][NextPublisher]_vars

\* the LockFreeQueue with the threads of its test in main
InitQueue ==
    /\ NewMatchingEngine
    /\ NewRiskManager(RiskConfig(0, 0, 0, 0))
    /\ NoCallers
    /\ NewPipeline
    /\ NewStrategyEngine(MainStrategyConfig)
    /\ NewDemo

\* the steps of a producer thread
QueueProducer(t) ==
    \/ QueuePushCall(t)
    \/ PushLoadTail(t)
    \/ PushLoadNext(t)
    \/ PushCheck(t)
    \/ PushLink(t)
    \/ PushHelp(t)
    \/ PushSwing(t)
    \/ PushReturn(t)

\* the steps of a consumer thread
QueueConsumer(t) ==
    \/ QueuePopCall(t)
    \/ PopLoadHead(t)
    \/ PopLoadTail(t)
    \/ PopLoadNext(t)
    \/ PopCheck(t)
    \/ PopHelp(t)
    \/ PopItem(t)
    \/ PopSwing(t)
    \/ PopDelete(t)
    \/ PopReturn(t)

NextQueue ==
    \/ \E t \in QueueProducers : QueueProducer(t)
    \/ \E t \in QueueConsumers : QueueConsumer(t)

SpecQueue == InitQueue /\ [][NextQueue]_vars

\* ---- the book between calls ----

\* C32: when no call is in progress (after every add_order and cancel_order
\* has returned), every resting buy order has a price strictly below the price
\* of every resting sell order, so that with both sides non-empty the best bid
\* is strictly less than the best ask.
C32_NeverCrossed ==
    pc = "idle" =>
        /\ \A b \in Resting(bid_side_), a \in Resting(ask_side_) : b.price < a.price
        /\ (~SideIsEmpty(bid_side_) /\ ~SideIsEmpty(ask_side_)) =>
               GetBestBidAsk[1] < GetBestBidAsk[2]

\* C32 witness: after a call that traded and rested its remainder, both sides
\* hold orders
C32_Witness ==
    /\ pc = "idle"
    /\ last_call.op = "add_order"
    /\ Len(trade_events_) > Len(before.trades)
    /\ last_call.order_id \in DOMAIN order_lookup_
    /\ ~SideIsEmpty(bid_side_) /\ ~SideIsEmpty(ask_side_)

\* what is left of a submitted order, the orders queued in the book given:
\* the quantity of the order add_order is working on, of the order queued in
\* the book, or the quantity it had when it was dropped or cancelled; 0 for an
\* order that was filled while resting
RemainingQuantity(id, queued) ==
    IF pc = "matching" /\ incoming_order.order_id = id THEN incoming_order.quantity
    ELSE IF \E o \in queued : o.order_id = id
         THEN (CHOOSE o \in queued : o.order_id = id).quantity
    ELSE IF ledger[id].out >= 0 THEN ledger[id].out
    ELSE 0

\* C33: quantity is conserved.  For every order ever submitted, the quantity
\* it was submitted with is the sum of the quantities of the trades that name
\* its id plus what is left of it: in every state while it is in the engine,
\* and when it has been dropped or cancelled; and from then on the log holds
\* no further trade for it.
C33_QuantityConserved ==
    LET queued == Resting(bid_side_) \cup Resting(ask_side_)
    IN \A id \in DOMAIN ledger :
        /\ ledger[id].initial > 0 =>
               ledger[id].initial = Traded(trade_events_, id) + RemainingQuantity(id, queued)
        /\ ledger[id].out >= 0 => Traded(trade_events_, id) = ledger[id].traded

\* C33 witness: an order that had traded part of its quantity while resting was
\* cancelled with the rest
C33_Witness ==
    /\ pc = "idle"
    /\ last_call.op = "cancel_order" /\ last_call.ret
    /\ Traded(trade_events_, last_call.order_id) >= 1
    /\ ledger[last_call.order_id].out >= 1
    /\ \E id \in DOMAIN ledger : id # last_call.order_id /\ Traded(trade_events_, id) >= 1

\* ---- the engine in the pipeline ----

\* C38: in the pipeline of main.cpp every order passed to add_order is a
\* Market order made by generate_signals in the submitting task, and in every
\* state no order rests in the book, get_best_bid_ask returns (0, 0) and
\* matched_trades_ is 0.
C38_OnlyMarketOrders ==
    /\ \A s \in submitted : s.order.type = MARKET /\ <<s.order>> \in Signals(s.task)
    /\ Resting(bid_side_) = {} /\ Resting(ask_side_) = {}
    /\ order_lookup_ = EmptyMap
    /\ GetBestBidAsk = <<0, 0>>
    /\ matched_trades_ = 0 /\ trade_events_ = <<>>

\* C38 witness: a Buy and a Sell have both been through add_order
C38_Witness ==
    /\ processed_orders_ >= 2
    /\ \E b, s \in submitted : b.order.side = BUY /\ s.order.side = SELL

\* ---- the strategy on a short history ----

\* the conditions of a Buy other than the one on the MACD lines
BuyRuleButMacd(history, config) ==
    /\ ScoreAbove(momentum_score(history, config.short_period, config.long_period),
                  config.momentum_threshold)
    /\ Less(relative_strength_index(history, config.rsi_period), config.rsi_overbought)
    /\ Less(simple_moving_average(history, config.short_period),
            Whole(history[Len(history)]))

\* C39: generate_signals never returns a Buy while the price history holds
\* fewer points than the slow period of macd, whatever long_period and the
\* prices are: after a call that returned a Buy, the history the call worked
\* on holds at least that many points.
C39_NoBuyOnShortHistory ==
    (strategy_call.signal.type = BUY \/ \E i \in DOMAIN strategy_call.strategy_orders :
                                          strategy_call.strategy_orders[i].side = BUY)
    => Len(price_history) >= MacdPeriods(strategy_config).slow

\* C39 witness: with the long_period of main.cpp, a call out of position found
\* long_period points or more but fewer than the slow period, the other three
\* Buy conditions held on them, and it returned nothing
C39_Witness ==
    /\ strategy_config.long_period <= Len(price_history)
    /\ Len(price_history) < MacdPeriods(strategy_config).slow
    /\ strategy_call.signal.type = HOLD
    /\ strategy_call.strategy_orders = <<>>
    /\ ~in_position
    /\ BuyRuleButMacd(price_history, strategy_config)

\* ---- ReadWriteLock ----

\* the threads that have returned from write_lock and not yet begun the store
\* of write_unlock, and those that have returned from read_lock and not yet
\* called read_unlock
WritersInside == {t \in LockThreads : lock_pc[t] \in {"writing", "w_unlock"}}
ReadersInside == {t \in LockThreads : lock_pc[t] = "reading"}

\* the threads inside write_lock
InWriteLock(t) == lock_pc[t] \in {"w_lock", "w_check", "w_block", "w_waiting", "w_wake", "w_set", "w_drain"}

\* C34: mutual exclusion.  In no state are two writers in their critical
\* sections, or a writer and a reader.
C34_MutualExclusion ==
    /\ Cardinality(WritersInside) <= 1
    /\ WritersInside # {} => ReadersInside = {}

\* C34 witness: a writer is in its critical section while another writer is
\* blocked on writer_cv_ and a reader has stepped back from the lock
C34_Witness ==
    /\ WritersInside # {}
    /\ \E t \in LockWriters : lock_pc[t] = "w_waiting"
    /\ \E t \in LockReaders : lock_pc[t] = "r_sub"

\* C35: under fair scheduling, with every holder releasing the lock, every
\* write_lock call returns.
C35_WriterLive ==
    \A t \in LockWriters : InWriteLock(t) ~> (lock_pc[t] = "writing")

\* ---- Barrier ----

\* C36: no thread has returned from its k-th wait() before every thread has
\* entered its k-th wait(), and under fair scheduling every wait() returns.
C36_ReusableBarrier ==
    /\ [](\A t, u \in BarrierThreads : barrier_pc[t] = "idle" => entered[u] >= entered[t])
    /\ \A t \in BarrierThreads : (barrier_pc[t] # "idle") ~> (barrier_pc[t] = "idle")

\* ---- LockFreeQueue ----

\* C37: the queue is a FIFO queue.  Every value a pop has returned was pushed
\* by a push call made before the pop returned, no value was returned by two
\* pops, and of two values pushed by one thread the one pushed later was not
\* returned by a pop that had returned before the pop of the earlier one began.
C37_FifoQueue ==
    /\ \A i \in DOMAIN popped : popped[i].value \in DOMAIN pushed
    /\ \A i, j \in DOMAIN popped : i # j => popped[i].value # popped[j].value
    /\ \A i, j \in DOMAIN popped :
          (/\ popped[i].value \in DOMAIN pushed /\ popped[j].value \in DOMAIN pushed
           /\ pushed[popped[i].value] = pushed[popped[j].value]
           /\ popped[i].value > popped[j].value)
          => ~(i <= popped[j].began)

\* ---- AdvancedMatchingEngine ----

\* thread t holds order_lookup_mutex_ and is in order_book_lock_.write_lock()
HoldsMutexWantsLock(t) ==
    /\ order_lookup_mutex_ = t
    /\ adv_pc[t] = "removing"
    /\ lock_pc[t] # "writing"

\* thread t holds the write lock and is in a lock_guard on order_lookup_mutex_
\* that another thread holds
HoldsLockWantsMutex(t) ==
    /\ lock_pc[t] = "writing"
    /\ adv_pc[t] \in {"erase", "rest"}
    /\ order_lookup_mutex_ \notin {0, t}

\* C31: no state has one thread holding order_lookup_mutex_ while it waits
\* for the order-book write lock and another thread holding the write lock
\* while it waits for order_lookup_mutex_.
C31_NoLockOrderDeadlock ==
    ~\E t, u \in Threads : t # u /\ HoldsMutexWantsLock(t) /\ HoldsLockWantsMutex(u)

\* ---- MarketDataPublisher ----

\* C40: every subscribed strategy has processed each published update exactly
\* once: its indicators hold one price per update, generate_signal has run
\* once per update, execute_signal at most once per update, and
\* updates_processed_ is the number of updates published.
C40_ProcessedOnce ==
    \A i \in DOMAIN md_consumers :
        /\ Len(md_consumers[i].prices) = Len(published)
        /\ md_consumers[i].generated = Len(published)
        /\ md_consumers[i].signals_generated_ <= Len(published)
        /\ md_consumers[i].updates_processed_ = Len(published)
====
